---- MODULE Spec2Model ----
(***************************************************************************)
(* Model of pilota's unchecked Thrift binary protocol                      *)
(* (src/pilota/src/thrift/binary_unsafe.rs).                               *)
(*                                                                         *)
(* One message is taken through the pipeline the codec is built for:       *)
(*   plan   the length pass (TLengthProtocol) over a sequence of calls     *)
(*   write  the same calls, made on a contiguous writer (&mut BytesMut)    *)
(*          and on a chained writer (&mut LinkedBytes), call by call       *)
(*   read   the matching reads, made on a buffer reader (&mut BytesMut)    *)
(*          and on a streaming reader (TAsyncBinaryProtocol) over the      *)
(*          bytes written, or reads over bytes received from a peer        *)
(*                                                                         *)
(* Memory is a byte array addressed from 0; a BytesMut is [ptr, len, cap]  *)
(* over it and the protocol's window `buf` is [ptr, len].  A store or load *)
(* through the window goes to buf.ptr + index, one through the transport   *)
(* to trans.ptr + index, as in the source.                                 *)
(*                                                                         *)
(* i32 values are signed (two's complement), i64 and f64 bit patterns are  *)
(* pairs [hi, lo] of i32 halves: the value hi * 2^32 + (lo mod 2^32).      *)
(***************************************************************************)
EXTENDS Integers, Sequences, FiniteSets, TLC

\* Bounds of the model.
MaxOps == 2
MaxReads == 2
\* The threshold is imported by the source (line 12) and set outside this
\* file; the model uses a small stand-in and every payload length is chosen
\* relative to it.
ZERO_COPY_THRESHOLD == 5

\* static VERSION_1: u32 = 0x80010000, as the i32 the code casts it to.
VERSION_1 == -2147418112

\* TType's one-byte wire codes (the enumeration lives in the parent module).
TType_Stop == 0
TType_I32 == 8
TType_Binary == 11
TTypeCodes == {0, 1, 2, 3, 4, 6, 8, 10, 11, 12, 13, 14, 15, 16}
\* TMessageType's codes: Call, Reply, Exception, OneWay.
TMessageTypeCodes == {1, 2, 3, 4}

(***************************************************************************)
(* Integer <-> big-endian bytes (iN::to_be_bytes / iN::from_be_bytes).     *)
(***************************************************************************)
i8_to_be_bytes(i) == <<i % 256>>
i16_to_be_bytes(i) == <<(i \div 256) % 256, i % 256>>
i32_to_be_bytes(i) ==
    <<(i \div 16777216) % 256, (i \div 65536) % 256, (i \div 256) % 256, i % 256>>
i64_to_be_bytes(i) == i32_to_be_bytes(i.hi) \o i32_to_be_bytes(i.lo)

Signed8(b) == IF b >= 128 THEN b - 256 ELSE b
i16_from_be_bytes(b) == Signed8(b[1]) * 256 + b[2]
i32_from_be_bytes(b) == Signed8(b[1]) * 16777216 + b[2] * 65536 + b[3] * 256 + b[4]
i64_from_be_bytes(b) ==
    [hi |-> i32_from_be_bytes(SubSeq(b, 1, 4)), lo |-> i32_from_be_bytes(SubSeq(b, 5, 8))]

\* size & 0xf and size & (VERSION_MASK as i32), VERSION_MASK = 0xffff0000,
\* on a two's complement i32.
and_0xf(size) == size % 16
and_VERSION_MASK(size) == size - (size % 65536)

(***************************************************************************)
(* Memory.                                                                 *)
(***************************************************************************)
\* n bytes of capacity nothing has been stored to (-1: no byte yet).
Alloc(n) == [a \in 1..n |-> -1]

\* ptr::copy_nonoverlapping / slice store of `bytes` at address `addr`.
Store(mem, addr, bytes) ==
    [a \in 1..Len(mem) |->
        IF a > addr /\ a <= addr + Len(bytes) THEN bytes[a - addr] ELSE mem[a]]

\* The n bytes at address `addr`.
Load(mem, addr, n) == SubSeq(mem, addr + 1, addr + n)

(***************************************************************************)
(* The values the calls are made with.                                     *)
(***************************************************************************)
PingBytes == <<112, 105, 110, 103>>   \* "ping"
Payload(n) == [k \in 1..n |-> PingBytes[((k - 1) % 4) + 1]]

BoolVals == {TRUE, FALSE}
ByteVals == {255}
I8Vals == {-128}
I16Vals == {-2}
I32Vals == {-2, 16909060}
I64Vals == {[hi |-> 16909060, lo |-> -2]}
DoubleVals == {[hi |-> 1072693248, lo |-> 0]}
UuidVals == {[k \in 1..16 |-> k]}
StringVals == {Payload(ZERO_COPY_THRESHOLD - 1), Payload(ZERO_COPY_THRESHOLD)}
FastStrVals == {Payload(ZERO_COPY_THRESHOLD - 1), Payload(ZERO_COPY_THRESHOLD)}
BytesVals == {Payload(ZERO_COPY_THRESHOLD - 1), Payload(ZERO_COPY_THRESHOLD)}
BytesVecVals == {Payload(ZERO_COPY_THRESHOLD)}
FieldVals == {[field_type |-> TType_Binary, id |-> -2]}
ListVals == {[element_type |-> TType_I32, size |-> 2]}
SetVals == {[element_type |-> TType_Binary, size |-> 1]}
MapVals == {[key_type |-> TType_I32, value_type |-> TType_Binary, size |-> 2]}
MessageVals ==
    { [name |-> PingBytes, message_type |-> 1, sequence_number |-> 7],
      [name |-> Payload(ZERO_COPY_THRESHOLD), message_type |-> 2, sequence_number |-> 7] }

Call(op, v) == [op |-> op, v |-> v, ret |-> 0]

\* message {name "ping", type Call, seq 7} wrapping an empty struct
PingScenario ==
    << Call("message_begin", [name |-> PingBytes, message_type |-> 1, sequence_number |-> 7]),
       Call("struct_begin", <<>>), Call("field_stop", <<>>),
       Call("struct_end", <<>>), Call("message_end", <<>>) >>
\* a map of two entries, key type I32, value type String
\* a struct with no fields
EmptyStructScenario ==
    << Call("struct_begin", <<>>), Call("field_stop", <<>>), Call("struct_end", <<>>) >>
MapScenario ==
    << Call("map_begin", [key_type |-> TType_I32, value_type |-> TType_Binary, size |-> 2]),
       Call("i32", 16909060), Call("string", Payload(ZERO_COPY_THRESHOLD - 1)),
       Call("i32", -2), Call("string", Payload(ZERO_COPY_THRESHOLD)),
       Call("map_end", <<>>) >>
Scenarios == {PingScenario, EmptyStructScenario, MapScenario}

VARIABLES
    phase,      \* "plan", "write", "read"
    zero_copy,  \* the flag every instance is constructed with
    ops,        \* the calls of the length pass, each with the length returned
    lp,         \* the length pass's instance
    lpClean,    \* reset() has been called since the instance's last use
    cw,         \* TBinaryProtocol<&mut BytesMut> as a writer, with its memory
    lw,         \* TBinaryProtocol<&mut LinkedBytes>, with its memory
    wpc,        \* the number of calls of ops the writers have made
    rd,         \* TBinaryProtocol<&mut BytesMut> as a reader, with its memory
    guided,     \* the reads follow ops (bytes written here) or are free (received)
    rlog,       \* the buffer reader's calls, each with its result and effect
    ar,         \* TAsyncBinaryProtocol over the same bytes
    alog        \* the streaming reader's calls, each with its result

vars == <<phase, zero_copy, ops, lp, lpClean, cw, lw, wpc, rd, guided, rlog, ar, alog>>
writerVars == <<cw, lw, wpc>>
readerVars == <<rd, guided, rlog, ar, alog>>

(***************************************************************************)
(* impl<T> TLengthProtocol for TBinaryProtocol<T>.  Each operator returns  *)
(* the instance after the call (p) and the value returned (n).             *)
(***************************************************************************)
write_byte_len(p, b) == [p |-> p, n |-> 1]
write_uuid_len(p, u) == [p |-> p, n |-> 16]
write_i8_len(p, i) == [p |-> p, n |-> 1]
write_i16_len(p, i) == [p |-> p, n |-> 2]
write_i32_len(p, i) == [p |-> p, n |-> 4]
write_i64_len(p, i) == [p |-> p, n |-> 8]
write_double_len(p, d) == [p |-> p, n |-> 8]
write_bool_len(p, b) == write_i8_len(p, 0)

\* mutant: every payload counts as going by reference, whatever its length
M_write_bytes_len(p, b) ==
    LET p1 == IF p.zero_copy
              THEN [p EXCEPT !.zero_copy_len = @ + Len(b)] ELSE p
        r == write_i32_len(p1, 0)
    IN  [p |-> r.p, n |-> r.n + Len(b)]

write_bytes_len(p, b) ==
    LET p1 == IF p.zero_copy /\ Len(b) >= ZERO_COPY_THRESHOLD
              THEN [p EXCEPT !.zero_copy_len = @ + Len(b)] ELSE p
        r == write_i32_len(p1, 0)
    IN  [p |-> r.p, n |-> r.n + Len(b)]

write_string_len(p, s) ==
    LET r == write_i32_len(p, 0) IN [p |-> r.p, n |-> r.n + Len(s)]

\* mutant: the bytes counted as zero-copy are left out of the returned length
M_write_faststr_len(p, s) ==
    IF p.zero_copy /\ Len(s) >= ZERO_COPY_THRESHOLD
    THEN [p |-> [p EXCEPT !.zero_copy_len = @ + Len(s)], n |-> 4]
    ELSE [p |-> p, n |-> 4 + Len(s)]

write_faststr_len(p, s) ==
    LET p1 == IF p.zero_copy /\ Len(s) >= ZERO_COPY_THRESHOLD
              THEN [p EXCEPT !.zero_copy_len = @ + Len(s)] ELSE p
        r == write_i32_len(p1, 0)
    IN  [p |-> r.p, n |-> r.n + Len(s)]

write_bytes_vec_len(p, b) ==
    LET r == write_i32_len(p, 0) IN [p |-> r.p, n |-> r.n + Len(b)]

write_message_begin_len(p, identifier) ==
    LET r1 == write_i32_len(p, 0)
        r2 == write_faststr_len(r1.p, identifier.name)
        r3 == write_i32_len(r2.p, 0)
    IN  [p |-> r3.p, n |-> r1.n + r2.n + r3.n]
write_message_end_len(p) == [p |-> p, n |-> 0]
write_struct_begin_len(p, identifier) == [p |-> p, n |-> 0]
write_struct_end_len(p) == [p |-> p, n |-> 0]
write_field_begin_len(p, field_type, id) ==
    LET r1 == write_byte_len(p, 0)
        r2 == write_i16_len(r1.p, 0)
    IN  [p |-> r2.p, n |-> r1.n + r2.n]
write_field_end_len(p) == [p |-> p, n |-> 0]
write_field_stop_len(p) == write_byte_len(p, 0)
write_list_begin_len(p, identifier) ==
    LET r1 == write_byte_len(p, 0)
        r2 == write_i32_len(r1.p, 0)
    IN  [p |-> r2.p, n |-> r1.n + r2.n]
write_list_end_len(p) == [p |-> p, n |-> 0]
write_set_begin_len(p, identifier) ==
    LET r1 == write_byte_len(p, 0)
        r2 == write_i32_len(r1.p, 0)
    IN  [p |-> r2.p, n |-> r1.n + r2.n]
write_set_end_len(p) == [p |-> p, n |-> 0]
write_map_begin_len(p, identifier) ==
    LET r1 == write_byte_len(p, 0)
        r2 == write_byte_len(r1.p, 0)
        r3 == write_i32_len(r2.p, 0)
    IN  [p |-> r3.p, n |-> r1.n + r2.n + r3.n]
write_map_end_len(p) == [p |-> p, n |-> 0]
zero_copy_len(p) == p.zero_copy_len
\* mutant: reset() leaves the accumulator as it is
M_reset(p) == p
reset(p) == [p EXCEPT !.zero_copy_len = 0]

(***************************************************************************)
(* impl TOutputProtocol for TBinaryProtocol<&mut BytesMut>.                *)
(* p.trans is the BytesMut, p.buf the window, p.mem the memory under both. *)
(***************************************************************************)
BytesMut_write_byte(p, b) ==
    [p EXCEPT !.mem = Store(@, p.buf.ptr + p.index, <<b>>), !.index = @ + 1]

BytesMut_write_i8(p, i) ==
    [p EXCEPT !.mem = Store(@, p.buf.ptr + p.index, <<i8_to_be_bytes(i)[1]>>),
              !.index = @ + 1]

BytesMut_write_i16(p, i) ==
    [p EXCEPT !.mem = Store(@, p.trans.ptr + p.index, i16_to_be_bytes(i)),
              !.index = @ + 2]

BytesMut_write_i32(p, i) ==
    [p EXCEPT !.mem = Store(@, p.trans.ptr + p.index, i32_to_be_bytes(i)),
              !.index = @ + 4]

BytesMut_write_i64(p, i) ==
    [p EXCEPT !.mem = Store(@, p.trans.ptr + p.index, i64_to_be_bytes(i)),
              !.index = @ + 8]

\* d is the double's bit pattern, d.to_bits()
BytesMut_write_double(p, d) ==
    [p EXCEPT !.mem = Store(@, p.trans.ptr + p.index, i64_to_be_bytes(d)),
              !.index = @ + 8]

BytesMut_write_uuid(p, u) ==
    [p EXCEPT !.mem = Store(@, p.buf.ptr + p.index, u), !.index = @ + 16]

BytesMut_write_bool(p, b) ==
    IF b THEN BytesMut_write_i8(p, 1) ELSE BytesMut_write_i8(p, 0)

BytesMut_write_bytes(p, b) ==
    LET p1 == BytesMut_write_i32(p, Len(b))
    IN  [p1 EXCEPT !.mem = Store(@, p1.buf.ptr + p1.index, b), !.index = @ + Len(b)]

BytesMut_write_string(p, s) ==
    LET p1 == BytesMut_write_i32(p, Len(s))
    IN  [p1 EXCEPT !.mem = Store(@, p1.buf.ptr + p1.index, s), !.index = @ + Len(s)]

BytesMut_write_faststr(p, s) ==
    LET p1 == BytesMut_write_i32(p, Len(s))
    IN  [p1 EXCEPT !.mem = Store(@, p1.buf.ptr + p1.index, s), !.index = @ + Len(s)]

BytesMut_write_bytes_vec(p, b) ==
    LET p1 == BytesMut_write_i32(p, Len(b))
    IN  [p1 EXCEPT !.mem = Store(@, p1.buf.ptr + p1.index, b), !.index = @ + Len(b)]

\* mutant: the sequence number is written before the name
M_BytesMut_write_message_begin(p, identifier) ==
    LET version == VERSION_1 + identifier.message_type
        p1 == BytesMut_write_i32(p, version)
        p2 == BytesMut_write_i32(p1, identifier.sequence_number)
    IN  BytesMut_write_faststr(p2, identifier.name)

BytesMut_write_message_begin(p, identifier) ==
    LET version == VERSION_1 + identifier.message_type   \* VERSION_1 | msg_type_u8
        p1 == BytesMut_write_i32(p, version)
        p2 == BytesMut_write_faststr(p1, identifier.name)
    IN  BytesMut_write_i32(p2, identifier.sequence_number)
BytesMut_write_message_end(p) == p
BytesMut_write_struct_begin(p, identifier) == p
BytesMut_write_struct_end(p) == p

BytesMut_write_field_begin(p, field_type, id) ==
    [p EXCEPT !.mem = Store(Store(@, p.buf.ptr + p.index, <<field_type>>),
                            p.buf.ptr + p.index + 1, i16_to_be_bytes(id)),
              !.index = @ + 3]
BytesMut_write_field_end(p) == p
BytesMut_write_field_stop(p) == BytesMut_write_byte(p, TType_Stop)

BytesMut_write_list_begin(p, identifier) ==
    BytesMut_write_i32(BytesMut_write_byte(p, identifier.element_type), identifier.size)
BytesMut_write_list_end(p) == p
BytesMut_write_set_begin(p, identifier) ==
    BytesMut_write_i32(BytesMut_write_byte(p, identifier.element_type), identifier.size)
BytesMut_write_set_end(p) == p
\* mutant: the value type is written before the key type
M_BytesMut_write_map_begin(p, identifier) ==
    LET p1 == BytesMut_write_byte(p, identifier.value_type)
        p2 == BytesMut_write_byte(p1, identifier.key_type)
    IN  BytesMut_write_i32(p2, identifier.size)

BytesMut_write_map_begin(p, identifier) ==
    LET p1 == BytesMut_write_byte(p, identifier.key_type)
        p2 == BytesMut_write_byte(p1, identifier.value_type)
    IN  BytesMut_write_i32(p2, identifier.size)
BytesMut_write_map_end(p) == p

(***************************************************************************)
(* The buffer operations the chained writer calls.                         *)
(***************************************************************************)
\* BytesMut::advance_mut(cnt): cnt more bytes of the capacity are written.
advance_mut(bm, cnt) == [bm EXCEPT !.len = @ + cnt]

\* BytesMut::split(): the written bytes leave as `head`; `rest` is empty and
\* keeps the remaining capacity.
split(bm) ==
    [head |-> [ptr |-> bm.ptr, len |-> bm.len],
     rest |-> [ptr |-> bm.ptr + bm.len, len |-> 0, cap |-> bm.cap - bm.len]]

\* LinkedBytes::insert / insert_faststr: the tail's written bytes become a
\* node of the list and the payload the node after it, held by reference.
insert(lb, kind, payload) ==
    LET s == split(lb.bytes)
    IN  [list |-> lb.list \o << [kind |-> "BytesMut", ptr |-> s.head.ptr, len |-> s.head.len],
                                [kind |-> kind, data |-> payload] >>,
         bytes |-> s.rest]

\* slice::from_raw_parts_mut(trans.bytes_mut().as_mut_ptr(), trans.bytes_mut().len())
window_of(bm) == [ptr |-> bm.ptr, len |-> bm.len]

(***************************************************************************)
(* impl TOutputProtocol for TBinaryProtocol<&mut LinkedBytes>.             *)
(* p.trans is the LinkedBytes [list, bytes], bytes its tail BytesMut.      *)
(***************************************************************************)
LinkedBytes_write_byte(p, b) ==
    [p EXCEPT !.mem = Store(@, p.buf.ptr + p.index, <<b>>), !.index = @ + 1]

LinkedBytes_write_i8(p, i) ==
    [p EXCEPT !.mem = Store(@, p.buf.ptr + p.index, <<i8_to_be_bytes(i)[1]>>),
              !.index = @ + 1]

LinkedBytes_write_i16(p, i) ==
    [p EXCEPT !.mem = Store(@, p.trans.bytes.ptr + p.index, i16_to_be_bytes(i)),
              !.index = @ + 2]

LinkedBytes_write_i32(p, i) ==
    [p EXCEPT !.mem = Store(@, p.trans.bytes.ptr + p.index, i32_to_be_bytes(i)),
              !.index = @ + 4]

LinkedBytes_write_i64(p, i) ==
    [p EXCEPT !.mem = Store(@, p.trans.bytes.ptr + p.index, i64_to_be_bytes(i)),
              !.index = @ + 8]

LinkedBytes_write_double(p, d) ==
    [p EXCEPT !.mem = Store(@, p.trans.bytes.ptr + p.index, i64_to_be_bytes(d)),
              !.index = @ + 8]

LinkedBytes_write_uuid(p, u) ==
    [p EXCEPT !.mem = Store(@, p.trans.bytes.ptr + p.index, u), !.index = @ + 16]

LinkedBytes_write_bool(p, b) ==
    IF b THEN LinkedBytes_write_i8(p, 1) ELSE LinkedBytes_write_i8(p, 0)

\* mutant: the written prefix is not committed before the payload is appended
M_splice(p, kind, payload) ==
    LET lb2 == insert(p.trans, kind, payload)
    IN  [p EXCEPT !.trans = lb2, !.index = 0, !.buf = window_of(lb2.bytes)]

\* The zero-copy branch of write_bytes and write_faststr: commit the tail's
\* written prefix, append the payload by reference, take a new window.
splice(p, kind, payload) ==
    LET lb1 == [p.trans EXCEPT !.bytes = advance_mut(@, p.index)]
        lb2 == insert(lb1, kind, payload)
    IN  [p EXCEPT !.trans = lb2, !.index = 0, !.buf = window_of(lb2.bytes)]

\* mutant: a payload of exactly the threshold is still copied
M_LinkedBytes_write_bytes(p, b) ==
    LET p1 == LinkedBytes_write_i32(p, Len(b))
    IN  IF p1.zero_copy /\ Len(b) > ZERO_COPY_THRESHOLD
        THEN splice(p1, "Bytes", b)
        ELSE [p1 EXCEPT !.mem = Store(@, p1.buf.ptr + p1.index, b),
                        !.index = @ + Len(b)]

LinkedBytes_write_bytes(p, b) ==
    LET p1 == LinkedBytes_write_i32(p, Len(b))
    IN  IF p1.zero_copy /\ Len(b) >= ZERO_COPY_THRESHOLD
        THEN splice(p1, "Bytes", b)
        ELSE [p1 EXCEPT !.mem = Store(@, p1.buf.ptr + p1.index, b),
                        !.index = @ + Len(b)]

LinkedBytes_write_faststr(p, s) ==
    LET p1 == LinkedBytes_write_i32(p, Len(s))
    IN  IF p1.zero_copy /\ Len(s) >= ZERO_COPY_THRESHOLD
        THEN splice(p1, "FastStr", s)
        ELSE [p1 EXCEPT !.mem = Store(@, p1.buf.ptr + p1.index, s),
                        !.index = @ + Len(s)]

LinkedBytes_write_string(p, s) ==
    LET p1 == LinkedBytes_write_i32(p, Len(s))
    IN  [p1 EXCEPT !.mem = Store(@, p1.buf.ptr + p1.index, s), !.index = @ + Len(s)]

LinkedBytes_write_bytes_vec(p, b) ==
    LET p1 == LinkedBytes_write_i32(p, Len(b))
    IN  [p1 EXCEPT !.mem = Store(@, p1.buf.ptr + p1.index, b), !.index = @ + Len(b)]

LinkedBytes_write_message_begin(p, identifier) ==
    LET version == VERSION_1 + identifier.message_type   \* VERSION_1 | msg_type_u8
        p1 == LinkedBytes_write_i32(p, version)
        p2 == LinkedBytes_write_faststr(p1, identifier.name)
    IN  LinkedBytes_write_i32(p2, identifier.sequence_number)
LinkedBytes_write_message_end(p) == p
LinkedBytes_write_struct_begin(p, identifier) == p
LinkedBytes_write_struct_end(p) == p

LinkedBytes_write_field_begin(p, field_type, id) ==
    [p EXCEPT !.mem = Store(Store(@, p.buf.ptr + p.index, <<field_type>>),
                            p.buf.ptr + p.index + 1, i16_to_be_bytes(id)),
              !.index = @ + 3]
LinkedBytes_write_field_end(p) == p
LinkedBytes_write_field_stop(p) == LinkedBytes_write_byte(p, TType_Stop)

LinkedBytes_write_list_begin(p, identifier) ==
    LinkedBytes_write_i32(LinkedBytes_write_byte(p, identifier.element_type), identifier.size)
LinkedBytes_write_list_end(p) == p
LinkedBytes_write_set_begin(p, identifier) ==
    LinkedBytes_write_i32(LinkedBytes_write_byte(p, identifier.element_type), identifier.size)
LinkedBytes_write_set_end(p) == p
LinkedBytes_write_map_begin(p, identifier) ==
    LET p1 == LinkedBytes_write_byte(p, identifier.key_type)
        p2 == LinkedBytes_write_byte(p1, identifier.value_type)
    IN  LinkedBytes_write_i32(p2, identifier.size)
LinkedBytes_write_map_end(p) == p

(***************************************************************************)
(* The buffer operations the buffer reader calls.                          *)
(***************************************************************************)
\* BytesMut::advance(cnt): drop the first cnt bytes.
advance(bm, cnt) == [ptr |-> bm.ptr + cnt, len |-> bm.len - cnt, cap |-> bm.cap - cnt]

\* BytesMut::split_to(at): the first `at` bytes leave as `head`, sharing the
\* memory; `rest` is what follows them.
split_to(bm, at) ==
    [head |-> [ptr |-> bm.ptr, len |-> at],
     rest |-> [ptr |-> bm.ptr + at, len |-> bm.len - at, cap |-> bm.cap - at]]

Ok(v) == [ok |-> TRUE, v |-> v]
Err(kind) == [ok |-> FALSE, err |-> kind]

\* A payload handed to the caller: its bytes, and whether it is a piece
\* detached from the backing buffer (at address addr) or a copy.
Detached(mem, piece) ==
    [bytes |-> Load(mem, piece.ptr, piece.len), detached |-> TRUE, addr |-> piece.ptr]
Copied(bytes) == [bytes |-> bytes, detached |-> FALSE, addr |-> -1]

\* TType: TryFrom<u8>, TMessageType: TryFrom<u8>
TType_try_from(b) == IF b \in TTypeCodes THEN Ok(b) ELSE Err("InvalidData")
TMessageType_try_from(b) == IF b \in TMessageTypeCodes THEN Ok(b) ELSE Err("InvalidData")

field_type_from_u8(ttype) == TType_try_from(ttype)

(***************************************************************************)
(* impl TInputProtocol for TBinaryProtocol<&mut BytesMut>.  Each operator  *)
(* returns the instance after the call (p) and the result (r).             *)
(***************************************************************************)
BytesMut_read_byte(p) ==
    [p |-> [p EXCEPT !.index = @ + 1], r |-> Ok(Load(p.mem, p.buf.ptr + p.index, 1)[1])]

BytesMut_read_i8(p) ==
    [p |-> [p EXCEPT !.index = @ + 1],
     r |-> Ok(Signed8(Load(p.mem, p.buf.ptr + p.index, 1)[1]))]

BytesMut_read_i16(p) ==
    [p |-> [p EXCEPT !.index = @ + 2],
     r |-> Ok(i16_from_be_bytes(Load(p.mem, p.buf.ptr + p.index, 2)))]

BytesMut_read_i32(p) ==
    [p |-> [p EXCEPT !.index = @ + 4],
     r |-> Ok(i32_from_be_bytes(Load(p.mem, p.buf.ptr + p.index, 4)))]

BytesMut_read_i64(p) ==
    [p |-> [p EXCEPT !.index = @ + 8],
     r |-> Ok(i64_from_be_bytes(Load(p.mem, p.buf.ptr + p.index, 8)))]

\* the result is the double's bit pattern, the argument of f64::from_bits
BytesMut_read_double(p) ==
    [p |-> [p EXCEPT !.index = @ + 8],
     r |-> Ok(i64_from_be_bytes(Load(p.mem, p.buf.ptr + p.index, 8)))]

BytesMut_read_uuid(p) ==
    [p |-> [p EXCEPT !.index = @ + 16], r |-> Ok(Load(p.mem, p.trans.ptr + p.index, 16))]

BytesMut_read_bool(p) ==
    LET b == BytesMut_read_i8(p) IN [p |-> b.p, r |-> Ok(b.r.v # 0)]

\* mutant: the bytes before the cursor are not dropped before the split
M_detach(p, len) ==
    LET s == split_to(p.trans, len)
    IN  [p |-> [p EXCEPT !.trans = s.rest, !.index = 0, !.buf = window_of(s.rest)],
         r |-> Ok(Detached(p.mem, s.head))]

\* advance(index); index = 0; split_to(len); buf = the window over what is left
detach(p, len) ==
    LET s == split_to(advance(p.trans, p.index), len)
    IN  [p |-> [p EXCEPT !.trans = s.rest, !.index = 0, !.buf = window_of(s.rest)],
         r |-> Ok(Detached(p.mem, s.head))]

BytesMut_read_bytes(p) ==
    LET len == BytesMut_read_i32(p) IN detach(len.p, len.r.v)

\* mutant: the window is not taken again after the split
M_BytesMut_read_bytes_vec(p) ==
    LET len == BytesMut_read_i32(p)
        s == split_to(advance(len.p.trans, len.p.index), len.r.v)
    IN  [p |-> [len.p EXCEPT !.trans = s.rest, !.index = 0],
         r |-> Ok(Detached(p.mem, s.head))]

BytesMut_read_bytes_vec(p) ==
    LET len == BytesMut_read_i32(p) IN detach(len.p, len.r.v)

\* mutant: a string is detached from the buffer as read_bytes does
M_BytesMut_read_string(p) ==
    LET len == BytesMut_read_i32(p) IN detach(len.p, len.r.v)

BytesMut_read_string(p) ==
    LET len == BytesMut_read_i32(p)
        p1 == len.p
    IN  [p |-> [p1 EXCEPT !.index = @ + len.r.v],
         r |-> Ok(Copied(Load(p1.mem, p1.buf.ptr + p1.index, len.r.v)))]

\* mutant: a string of exactly the threshold is still copied
M_BytesMut_read_faststr(p) ==
    LET len == BytesMut_read_i32(p)
        p1 == len.p
    IN  IF len.r.v > ZERO_COPY_THRESHOLD
        THEN detach(p1, len.r.v)
        ELSE [p |-> [p1 EXCEPT !.index = @ + len.r.v],
              r |-> Ok(Copied(Load(p1.mem, p1.buf.ptr + p1.index, len.r.v)))]

BytesMut_read_faststr(p) ==
    LET len == BytesMut_read_i32(p)
        p1 == len.p
    IN  IF len.r.v >= ZERO_COPY_THRESHOLD
        THEN detach(p1, len.r.v)
        ELSE [p |-> [p1 EXCEPT !.index = @ + len.r.v],
              r |-> Ok(Copied(Load(p1.mem, p1.buf.ptr + p1.index, len.r.v)))]

\* mutant: the version is checked before the message type
M_BytesMut_read_message_begin(p) ==
    LET size == BytesMut_read_i32(p)
        message_type == TMessageType_try_from(and_0xf(size.r.v))
        version == and_VERSION_MASK(size.r.v)
        name == BytesMut_read_faststr(size.p)
        sequence_number == BytesMut_read_i32(name.p)
    IN  IF size.r.v > 0 THEN [p |-> size.p, r |-> Err("BadVersion")]
        ELSE IF version # VERSION_1 THEN [p |-> size.p, r |-> Err("BadVersion")]
        ELSE IF ~message_type.ok THEN [p |-> size.p, r |-> Err("InvalidData")]
        ELSE [p |-> sequence_number.p,
              r |-> Ok([name |-> name.r.v, message_type |-> message_type.v,
                        sequence_number |-> sequence_number.r.v])]

BytesMut_read_message_begin(p) ==
    LET size == BytesMut_read_i32(p)
        message_type == TMessageType_try_from(and_0xf(size.r.v))
        version == and_VERSION_MASK(size.r.v)
        name == BytesMut_read_faststr(size.p)
        sequence_number == BytesMut_read_i32(name.p)
    IN  IF size.r.v > 0 THEN [p |-> size.p, r |-> Err("BadVersion")]
        ELSE IF ~message_type.ok THEN [p |-> size.p, r |-> Err("InvalidData")]
        ELSE IF version # VERSION_1 THEN [p |-> size.p, r |-> Err("BadVersion")]
        ELSE [p |-> sequence_number.p,
              r |-> Ok([name |-> name.r.v, message_type |-> message_type.v,
                        sequence_number |-> sequence_number.r.v])]
BytesMut_read_message_end(p) == [p |-> p, r |-> Ok(<<>>)]
BytesMut_read_struct_begin(p) == [p |-> p, r |-> Ok(<<>>)]
BytesMut_read_struct_end(p) == [p |-> p, r |-> Ok(<<>>)]

\* mutant: the id is read after a Stop byte too
M_BytesMut_read_field_begin(p) ==
    LET field_type_byte == BytesMut_read_byte(p)
        field_type == TType_try_from(field_type_byte.r.v)
        id == BytesMut_read_i16(field_type_byte.p)
    IN  IF ~field_type.ok THEN [p |-> field_type_byte.p, r |-> Err("InvalidData")]
        ELSE [p |-> id.p, r |-> Ok([field_type |-> field_type.v, id |-> id.r.v])]

BytesMut_read_field_begin(p) ==
    LET field_type_byte == BytesMut_read_byte(p)
        field_type == TType_try_from(field_type_byte.r.v)
        id == BytesMut_read_i16(field_type_byte.p)
    IN  IF ~field_type.ok THEN [p |-> field_type_byte.p, r |-> Err("InvalidData")]
        ELSE IF field_type.v = TType_Stop
        THEN [p |-> field_type_byte.p, r |-> Ok([field_type |-> field_type.v, id |-> 0])]
        ELSE [p |-> id.p, r |-> Ok([field_type |-> field_type.v, id |-> id.r.v])]
BytesMut_read_field_end(p) == [p |-> p, r |-> Ok(<<>>)]

BytesMut_read_list_begin(p) ==
    LET b == BytesMut_read_byte(p)
        element_type == field_type_from_u8(b.r.v)
        size == BytesMut_read_i32(b.p)
    IN  IF ~element_type.ok THEN [p |-> b.p, r |-> element_type]
        ELSE [p |-> size.p, r |-> Ok([element_type |-> element_type.v, size |-> size.r.v])]
BytesMut_read_list_end(p) == [p |-> p, r |-> Ok(<<>>)]

BytesMut_read_set_begin(p) ==
    LET b == BytesMut_read_byte(p)
        element_type == field_type_from_u8(b.r.v)
        size == BytesMut_read_i32(b.p)
    IN  IF ~element_type.ok THEN [p |-> b.p, r |-> element_type]
        ELSE [p |-> size.p, r |-> Ok([element_type |-> element_type.v, size |-> size.r.v])]
BytesMut_read_set_end(p) == [p |-> p, r |-> Ok(<<>>)]

\* mutant: the size is read before the value type is looked at
M_BytesMut_read_map_begin(p) ==
    LET k == BytesMut_read_byte(p)
        key_type == field_type_from_u8(k.r.v)
        v == BytesMut_read_byte(k.p)
        value_type == field_type_from_u8(v.r.v)
        size == BytesMut_read_i32(v.p)
    IN  IF ~key_type.ok THEN [p |-> k.p, r |-> key_type]
        ELSE IF ~value_type.ok THEN [p |-> size.p, r |-> value_type]
        ELSE [p |-> size.p,
              r |-> Ok([key_type |-> key_type.v, value_type |-> value_type.v,
                        size |-> size.r.v])]

BytesMut_read_map_begin(p) ==
    LET k == BytesMut_read_byte(p)
        key_type == field_type_from_u8(k.r.v)
        v == BytesMut_read_byte(k.p)
        value_type == field_type_from_u8(v.r.v)
        size == BytesMut_read_i32(v.p)
    IN  IF ~key_type.ok THEN [p |-> k.p, r |-> key_type]
        ELSE IF ~value_type.ok THEN [p |-> v.p, r |-> value_type]
        ELSE [p |-> size.p,
              r |-> Ok([key_type |-> key_type.v, value_type |-> value_type.v,
                        size |-> size.r.v])]
BytesMut_read_map_end(p) == [p |-> p, r |-> Ok(<<>>)]

(***************************************************************************)
(* impl TAsyncInputProtocol for TAsyncBinaryProtocol<R>.  a.reader is the  *)
(* byte source: its bytes and how many of them have been consumed.         *)
(***************************************************************************)
\* AsyncReadExt::read_exact: the next n bytes of the source
read_exact(a, n) ==
    [p |-> [a EXCEPT !.reader.pos = @ + n],
     bytes |-> SubSeq(a.reader.data, a.reader.pos + 1, a.reader.pos + n)]

Async_read_byte(a) == LET b == read_exact(a, 1) IN [p |-> b.p, r |-> Ok(b.bytes[1])]
Async_read_i8(a) == LET b == read_exact(a, 1) IN [p |-> b.p, r |-> Ok(Signed8(b.bytes[1]))]
Async_read_i16(a) ==
    LET b == read_exact(a, 2) IN [p |-> b.p, r |-> Ok(i16_from_be_bytes(b.bytes))]
Async_read_i32(a) ==
    LET b == read_exact(a, 4) IN [p |-> b.p, r |-> Ok(i32_from_be_bytes(b.bytes))]
Async_read_i64(a) ==
    LET b == read_exact(a, 8) IN [p |-> b.p, r |-> Ok(i64_from_be_bytes(b.bytes))]
Async_read_double(a) ==
    LET b == read_exact(a, 8) IN [p |-> b.p, r |-> Ok(i64_from_be_bytes(b.bytes))]
Async_read_uuid(a) == LET b == read_exact(a, 16) IN [p |-> b.p, r |-> Ok(b.bytes)]
Async_read_bool(a) == LET b == Async_read_i8(a) IN [p |-> b.p, r |-> Ok(b.r.v # 0)]

\* mutant: one byte more than the payload is taken from the source
M_Async_read_bytes_vec(a) ==
    LET len == Async_read_i32(a)
        v == read_exact(len.p, len.r.v + 1)
    IN  [p |-> v.p, r |-> Ok(Copied(SubSeq(v.bytes, 1, len.r.v)))]

Async_read_bytes_vec(a) ==
    LET len == Async_read_i32(a)
        v == read_exact(len.p, len.r.v)
    IN  [p |-> v.p, r |-> Ok(Copied(v.bytes))]
Async_read_bytes(a) == Async_read_bytes_vec(a)
Async_read_string(a) ==
    LET len == Async_read_i32(a)
        v == read_exact(len.p, len.r.v)
    IN  [p |-> v.p, r |-> Ok(Copied(v.bytes))]
Async_read_faststr(a) == Async_read_string(a)

\* mutant: a header word without the sign bit is not turned down at once
M_Async_read_message_begin(a) ==
    LET size == Async_read_i32(a)
        message_type == TMessageType_try_from(and_0xf(size.r.v))
        version == and_VERSION_MASK(size.r.v)
        name == Async_read_faststr(size.p)
        sequence_number == Async_read_i32(name.p)
    IN  IF ~message_type.ok THEN [p |-> size.p, r |-> Err("InvalidData")]
        ELSE IF version # VERSION_1 THEN [p |-> size.p, r |-> Err("BadVersion")]
        ELSE [p |-> sequence_number.p,
              r |-> Ok([name |-> name.r.v, message_type |-> message_type.v,
                        sequence_number |-> sequence_number.r.v])]

Async_read_message_begin(a) ==
    LET size == Async_read_i32(a)
        message_type == TMessageType_try_from(and_0xf(size.r.v))
        version == and_VERSION_MASK(size.r.v)
        name == Async_read_faststr(size.p)
        sequence_number == Async_read_i32(name.p)
    IN  IF size.r.v > 0 THEN [p |-> size.p, r |-> Err("BadVersion")]
        ELSE IF ~message_type.ok THEN [p |-> size.p, r |-> Err("InvalidData")]
        ELSE IF version # VERSION_1 THEN [p |-> size.p, r |-> Err("BadVersion")]
        ELSE [p |-> sequence_number.p,
              r |-> Ok([name |-> name.r.v, message_type |-> message_type.v,
                        sequence_number |-> sequence_number.r.v])]
Async_read_message_end(a) == [p |-> a, r |-> Ok(<<>>)]
Async_read_struct_begin(a) == [p |-> a, r |-> Ok(<<>>)]
Async_read_struct_end(a) == [p |-> a, r |-> Ok(<<>>)]

Async_read_field_begin(a) ==
    LET field_type_byte == Async_read_byte(a)
        field_type == TType_try_from(field_type_byte.r.v)
        id == Async_read_i16(field_type_byte.p)
    IN  IF ~field_type.ok THEN [p |-> field_type_byte.p, r |-> Err("InvalidData")]
        ELSE IF field_type.v = TType_Stop
        THEN [p |-> field_type_byte.p, r |-> Ok([field_type |-> field_type.v, id |-> 0])]
        ELSE [p |-> id.p, r |-> Ok([field_type |-> field_type.v, id |-> id.r.v])]
Async_read_field_end(a) == [p |-> a, r |-> Ok(<<>>)]

Async_read_list_begin(a) ==
    LET b == Async_read_byte(a)
        element_type == field_type_from_u8(b.r.v)
        size == Async_read_i32(b.p)
    IN  IF ~element_type.ok THEN [p |-> b.p, r |-> element_type]
        ELSE [p |-> size.p, r |-> Ok([element_type |-> element_type.v, size |-> size.r.v])]
Async_read_list_end(a) == [p |-> a, r |-> Ok(<<>>)]

Async_read_set_begin(a) ==
    LET b == Async_read_byte(a)
        element_type == field_type_from_u8(b.r.v)
        size == Async_read_i32(b.p)
    IN  IF ~element_type.ok THEN [p |-> b.p, r |-> element_type]
        ELSE [p |-> size.p, r |-> Ok([element_type |-> element_type.v, size |-> size.r.v])]
Async_read_set_end(a) == [p |-> a, r |-> Ok(<<>>)]

Async_read_map_begin(a) ==
    LET k == Async_read_byte(a)
        key_type == field_type_from_u8(k.r.v)
        v == Async_read_byte(k.p)
        value_type == field_type_from_u8(v.r.v)
        size == Async_read_i32(v.p)
    IN  IF ~key_type.ok THEN [p |-> k.p, r |-> key_type]
        ELSE IF ~value_type.ok THEN [p |-> v.p, r |-> value_type]
        ELSE [p |-> size.p,
              r |-> Ok([key_type |-> key_type.v, value_type |-> value_type.v,
                        size |-> size.r.v])]
Async_read_map_end(a) == [p |-> a, r |-> Ok(<<>>)]

(***************************************************************************)
(* What a read needs: the bytes the source must still hold for the call    *)
(* to stay inside it (the precondition of the unchecked reads).  b is what *)
(* is left of the input.                                                   *)
(***************************************************************************)
NeedPayload(b) ==
    IF Len(b) < 4 THEN 4
    ELSE LET n == i32_from_be_bytes(SubSeq(b, 1, 4))
         IN  IF n < 0 \/ n > Len(b) THEN Len(b) + 1 ELSE 4 + n

NeedTypes(b, k, rest) ==
    IF \E j \in 1..k : j > Len(b) \/ b[j] \notin TTypeCodes
    THEN (CHOOSE j \in 1..k : (j > Len(b) \/ b[j] \notin TTypeCodes)
                              /\ \A h \in 1..(j - 1) : b[h] \in TTypeCodes)
    ELSE k + rest

Need(op, b) ==
    CASE op \in {"byte", "i8", "bool"} -> 1
      [] op = "i16" -> 2
      [] op = "i32" -> 4
      [] op \in {"i64", "double"} -> 8
      [] op = "uuid" -> 16
      [] op \in {"bytes", "bytes_vec", "string", "faststr"} -> NeedPayload(b)
      [] op = "field_begin" ->
            IF Len(b) >= 1 /\ b[1] \in TTypeCodes \ {TType_Stop} THEN 3 ELSE 1
      [] op \in {"list_begin", "set_begin"} -> NeedTypes(b, 1, 4)
      [] op = "map_begin" -> NeedTypes(b, 2, 4)
      [] op = "message_begin" ->
            IF Len(b) < 4 THEN 4
            ELSE LET size == i32_from_be_bytes(SubSeq(b, 1, 4))
                 IN  IF size > 0 \/ and_0xf(size) \notin TMessageTypeCodes
                        \/ and_VERSION_MASK(size) # VERSION_1
                     THEN 4
                     ELSE 4 + NeedPayload(SubSeq(b, 5, Len(b))) + 4
      [] OTHER -> 0

(***************************************************************************)
(* The length pass: one action per TLengthProtocol call.                   *)
(***************************************************************************)
IsPrefixOf(o, s) ==
    /\ Len(o) <= Len(s)
    /\ \A k \in 1..Len(o) : o[k].op = s[k].op /\ o[k].v = s[k].v

\* The call sequences of the model: every sequence of at most MaxOps calls,
\* and the scenarios call by call.
PlanOK(o) == Len(o) <= MaxOps \/ \E s \in Scenarios : IsPrefixOf(o, s)

PlanStep(c, r) ==
    /\ phase = "plan"
    /\ lpClean
    /\ PlanOK(Append(ops, c))
    /\ lp' = r.p
    /\ ops' = Append(ops, [c EXCEPT !.ret = r.n])
    /\ UNCHANGED <<phase, zero_copy, lpClean, writerVars, readerVars>>

Len_write_message_begin ==
    \E m \in MessageVals : PlanStep(Call("message_begin", m), write_message_begin_len(lp, m))
Len_write_message_end == PlanStep(Call("message_end", <<>>), write_message_end_len(lp))
Len_write_struct_begin == PlanStep(Call("struct_begin", <<>>), write_struct_begin_len(lp, <<>>))
Len_write_struct_end == PlanStep(Call("struct_end", <<>>), write_struct_end_len(lp))
Len_write_field_begin ==
    \E f \in FieldVals :
        PlanStep(Call("field_begin", f), write_field_begin_len(lp, f.field_type, f.id))
Len_write_field_end == PlanStep(Call("field_end", <<>>), write_field_end_len(lp))
Len_write_field_stop == PlanStep(Call("field_stop", <<>>), write_field_stop_len(lp))
Len_write_bool == \E b \in BoolVals : PlanStep(Call("bool", b), write_bool_len(lp, b))
Len_write_bytes == \E b \in BytesVals : PlanStep(Call("bytes", b), write_bytes_len(lp, b))
Len_write_byte == \E b \in ByteVals : PlanStep(Call("byte", b), write_byte_len(lp, b))
Len_write_uuid == \E u \in UuidVals : PlanStep(Call("uuid", u), write_uuid_len(lp, u))
Len_write_i8 == \E i \in I8Vals : PlanStep(Call("i8", i), write_i8_len(lp, i))
Len_write_i16 == \E i \in I16Vals : PlanStep(Call("i16", i), write_i16_len(lp, i))
Len_write_i32 == \E i \in I32Vals : PlanStep(Call("i32", i), write_i32_len(lp, i))
Len_write_i64 == \E i \in I64Vals : PlanStep(Call("i64", i), write_i64_len(lp, i))
Len_write_double == \E d \in DoubleVals : PlanStep(Call("double", d), write_double_len(lp, d))
Len_write_string == \E x \in StringVals : PlanStep(Call("string", x), write_string_len(lp, x))
Len_write_faststr ==
    \E x \in FastStrVals : PlanStep(Call("faststr", x), write_faststr_len(lp, x))
Len_write_list_begin ==
    \E l \in ListVals : PlanStep(Call("list_begin", l), write_list_begin_len(lp, l))
Len_write_list_end == PlanStep(Call("list_end", <<>>), write_list_end_len(lp))
Len_write_set_begin ==
    \E l \in SetVals : PlanStep(Call("set_begin", l), write_set_begin_len(lp, l))
Len_write_set_end == PlanStep(Call("set_end", <<>>), write_set_end_len(lp))
Len_write_map_begin ==
    \E m \in MapVals : PlanStep(Call("map_begin", m), write_map_begin_len(lp, m))
Len_write_map_end == PlanStep(Call("map_end", <<>>), write_map_end_len(lp))
Len_write_bytes_vec ==
    \E b \in BytesVecVals : PlanStep(Call("bytes_vec", b), write_bytes_vec_len(lp, b))

\* reset(), between two uses of the instance
Len_reset ==
    /\ phase = "plan"
    /\ ops = <<>>
    /\ ~lpClean
    /\ lp' = reset(lp)
    /\ lpClean' = TRUE
    /\ UNCHANGED <<phase, zero_copy, ops, writerVars, readerVars>>

LenNext ==
    \/ Len_write_message_begin \/ Len_write_message_end
    \/ Len_write_struct_begin \/ Len_write_struct_end
    \/ Len_write_field_begin \/ Len_write_field_end \/ Len_write_field_stop
    \/ Len_write_bool \/ Len_write_bytes \/ Len_write_byte \/ Len_write_uuid
    \/ Len_write_i8 \/ Len_write_i16 \/ Len_write_i32 \/ Len_write_i64
    \/ Len_write_double \/ Len_write_string \/ Len_write_faststr
    \/ Len_write_list_begin \/ Len_write_list_end
    \/ Len_write_set_begin \/ Len_write_set_end
    \/ Len_write_map_begin \/ Len_write_map_end
    \/ Len_write_bytes_vec \/ Len_reset

(***************************************************************************)
(* The caller sizes the buffers from the length pass and constructs the    *)
(* two writers over them (TBinaryProtocol::new), index 0.                  *)
(***************************************************************************)
RECURSIVE SumRet(_)
SumRet(o) == IF o = <<>> THEN 0 ELSE o[1].ret + SumRet(Tail(o))

new(trans, buf, zc, mem) ==
    [trans |-> trans, buf |-> buf, index |-> 0, zero_copy |-> zc, zero_copy_len |-> 0,
     mem |-> mem]

NoBytesMut == [ptr |-> 0, len |-> 0, cap |-> 0]
NoInstance == new(NoBytesMut, window_of(NoBytesMut), FALSE, <<>>)

\* a BytesMut with `cap` bytes of capacity, none written
with_capacity(cap) == [ptr |-> 0, len |-> 0, cap |-> cap]
\* the window over a BytesMut's unwritten capacity
spare_capacity(bm) == [ptr |-> bm.ptr + bm.len, len |-> bm.cap - bm.len]

Reserve ==
    /\ phase = "plan"
    /\ lpClean
    /\ LET total == SumRet(ops)
           flat == with_capacity(total)
           tail == with_capacity(total - zero_copy_len(lp))
       IN  /\ cw' = new(flat, spare_capacity(flat), zero_copy, Alloc(total))
           /\ lw' = new([list |-> <<>>, bytes |-> tail], spare_capacity(tail), zero_copy,
                        Alloc(tail.cap))
    /\ phase' = "write"
    /\ wpc' = 0
    /\ UNCHANGED <<zero_copy, ops, lp, lpClean, readerVars>>

(***************************************************************************)
(* The write pass: the calls of ops, in order, each made on the contiguous *)
(* writer and on the chained writer.                                       *)
(***************************************************************************)
NextCall == ops[wpc + 1]

WriteStep(op, pc, pl) ==
    /\ phase = "write"
    /\ wpc < Len(ops)
    /\ NextCall.op = op
    /\ cw' = pc
    /\ lw' = pl
    /\ wpc' = wpc + 1
    /\ UNCHANGED <<phase, zero_copy, ops, lp, lpClean, readerVars>>

Write_message_begin ==
    LET c == NextCall
    IN  WriteStep("message_begin", BytesMut_write_message_begin(cw, c.v),
                  LinkedBytes_write_message_begin(lw, c.v))
Write_message_end ==
    LET c == NextCall
    IN  WriteStep("message_end", BytesMut_write_message_end(cw),
                  LinkedBytes_write_message_end(lw))
Write_struct_begin ==
    LET c == NextCall
    IN  WriteStep("struct_begin", BytesMut_write_struct_begin(cw, c.v),
                  LinkedBytes_write_struct_begin(lw, c.v))
Write_struct_end ==
    LET c == NextCall
    IN  WriteStep("struct_end", BytesMut_write_struct_end(cw),
                  LinkedBytes_write_struct_end(lw))
Write_field_begin ==
    LET c == NextCall
    IN  WriteStep("field_begin", BytesMut_write_field_begin(cw, c.v.field_type, c.v.id),
                  LinkedBytes_write_field_begin(lw, c.v.field_type, c.v.id))
Write_field_end ==
    LET c == NextCall
    IN  WriteStep("field_end", BytesMut_write_field_end(cw),
                  LinkedBytes_write_field_end(lw))
Write_field_stop ==
    LET c == NextCall
    IN  WriteStep("field_stop", BytesMut_write_field_stop(cw),
                  LinkedBytes_write_field_stop(lw))
Write_bool ==
    LET c == NextCall
    IN  WriteStep("bool", BytesMut_write_bool(cw, c.v),
                  LinkedBytes_write_bool(lw, c.v))
Write_bytes ==
    LET c == NextCall
    IN  WriteStep("bytes", BytesMut_write_bytes(cw, c.v),
                  LinkedBytes_write_bytes(lw, c.v))
Write_byte ==
    LET c == NextCall
    IN  WriteStep("byte", BytesMut_write_byte(cw, c.v),
                  LinkedBytes_write_byte(lw, c.v))
Write_uuid ==
    LET c == NextCall
    IN  WriteStep("uuid", BytesMut_write_uuid(cw, c.v),
                  LinkedBytes_write_uuid(lw, c.v))
Write_i8 ==
    LET c == NextCall
    IN  WriteStep("i8", BytesMut_write_i8(cw, c.v),
                  LinkedBytes_write_i8(lw, c.v))
Write_i16 ==
    LET c == NextCall
    IN  WriteStep("i16", BytesMut_write_i16(cw, c.v),
                  LinkedBytes_write_i16(lw, c.v))
Write_i32 ==
    LET c == NextCall
    IN  WriteStep("i32", BytesMut_write_i32(cw, c.v),
                  LinkedBytes_write_i32(lw, c.v))
Write_i64 ==
    LET c == NextCall
    IN  WriteStep("i64", BytesMut_write_i64(cw, c.v),
                  LinkedBytes_write_i64(lw, c.v))
Write_double ==
    LET c == NextCall
    IN  WriteStep("double", BytesMut_write_double(cw, c.v),
                  LinkedBytes_write_double(lw, c.v))
Write_string ==
    LET c == NextCall
    IN  WriteStep("string", BytesMut_write_string(cw, c.v),
                  LinkedBytes_write_string(lw, c.v))
Write_faststr ==
    LET c == NextCall
    IN  WriteStep("faststr", BytesMut_write_faststr(cw, c.v),
                  LinkedBytes_write_faststr(lw, c.v))
Write_list_begin ==
    LET c == NextCall
    IN  WriteStep("list_begin", BytesMut_write_list_begin(cw, c.v),
                  LinkedBytes_write_list_begin(lw, c.v))
Write_list_end ==
    LET c == NextCall
    IN  WriteStep("list_end", BytesMut_write_list_end(cw),
                  LinkedBytes_write_list_end(lw))
Write_set_begin ==
    LET c == NextCall
    IN  WriteStep("set_begin", BytesMut_write_set_begin(cw, c.v),
                  LinkedBytes_write_set_begin(lw, c.v))
Write_set_end ==
    LET c == NextCall
    IN  WriteStep("set_end", BytesMut_write_set_end(cw),
                  LinkedBytes_write_set_end(lw))
Write_map_begin ==
    LET c == NextCall
    IN  WriteStep("map_begin", BytesMut_write_map_begin(cw, c.v),
                  LinkedBytes_write_map_begin(lw, c.v))
Write_map_end ==
    LET c == NextCall
    IN  WriteStep("map_end", BytesMut_write_map_end(cw),
                  LinkedBytes_write_map_end(lw))
Write_bytes_vec ==
    LET c == NextCall
    IN  WriteStep("bytes_vec", BytesMut_write_bytes_vec(cw, c.v),
                  LinkedBytes_write_bytes_vec(lw, c.v))

WriteNext ==
    \/ Write_message_begin \/ Write_message_end \/ Write_struct_begin \/ Write_struct_end
    \/ Write_field_begin \/ Write_field_end \/ Write_field_stop \/ Write_bool
    \/ Write_bytes \/ Write_byte \/ Write_uuid \/ Write_i8
    \/ Write_i16 \/ Write_i32 \/ Write_i64 \/ Write_double
    \/ Write_string \/ Write_faststr \/ Write_list_begin \/ Write_list_end
    \/ Write_set_begin \/ Write_set_end \/ Write_map_begin \/ Write_map_end
    \/ Write_bytes_vec

(***************************************************************************)
(* The bytes the readers are given: those the contiguous writer produced,  *)
(* or bytes received from a peer.                                          *)
(***************************************************************************)
HeaderWords ==
    { VERSION_1 + 1, VERSION_1 + 4, VERSION_1, VERSION_1 + 5, VERSION_1 + 17,
      1, 2147483647, 0, -1, -2147483647, -2147352575, -65535 }
MessageInput(w) ==
    i32_to_be_bytes(w) \o i32_to_be_bytes(4) \o PingBytes \o i32_to_be_bytes(7)
TypeBytes == {0, 2, 5, 8, 255}
TypeInputs == {<<t, 11, 0, 0, 0, 2>> : t \in TypeBytes} \cup {<<8, 9, 0, 0, 0, 2>>}
ReceivedInputs == {MessageInput(w) : w \in HeaderWords} \cup TypeInputs

\* a BytesMut holding `bytes`
from_bytes(bytes) == [ptr |-> 0, len |-> Len(bytes), cap |-> Len(bytes)]
NoSource == [reader |-> [data |-> <<>>, pos |-> 0]]

\* the bytes of the contiguous writer's region up to its cursor
Written(p) == Load(p.mem, p.trans.ptr, p.index)

StartReaders(bytes) ==
    /\ rd' = new(from_bytes(bytes), window_of(from_bytes(bytes)), zero_copy, bytes)
    /\ ar' = [reader |-> [data |-> bytes, pos |-> 0]]
    /\ rlog' = <<>>
    /\ alog' = <<>>
    /\ phase' = "read"

\* the write pass is over: the bytes written go to the readers
Transmit ==
    /\ phase = "write"
    /\ wpc = Len(ops)
    /\ cw.index <= Len(cw.mem)
    /\ StartReaders(Written(cw))
    /\ guided' = TRUE
    /\ UNCHANGED <<zero_copy, ops, lp, lpClean, writerVars>>

\* readers constructed over bytes that came from a peer
Receive ==
    /\ phase = "plan"
    /\ ops = <<>>
    /\ lpClean
    /\ \E bytes \in ReceivedInputs : StartReaders(bytes)
    /\ guided' = FALSE
    /\ UNCHANGED <<zero_copy, ops, lp, lpClean, writerVars>>

(***************************************************************************)
(* The read pass: each read is made on the buffer reader and on the        *)
(* streaming reader.  Over bytes written here the reads are those that     *)
(* match ops; over received bytes they are any reads the input is long     *)
(* enough for.                                                             *)
(***************************************************************************)
ReadOf(op) == IF op = "field_stop" THEN "field_begin" ELSE op

\* what is left of the buffer reader's input, and of the source
Remaining(p) == Load(p.mem, p.trans.ptr + p.index, p.trans.len - p.index)
Unread(a) == SubSeq(a.reader.data, a.reader.pos + 1, Len(a.reader.data))

\* the bytes of its input the buffer reader has consumed: those dropped from
\* the front of the BytesMut and those before the cursor
Consumed(p) == p.trans.ptr + p.index

\* A call is logged with its result, the input offsets it started and ended
\* at and, for the buffer reader, the cursor and the BytesMut it left.
ReadStep(op, resb, resa) ==
    /\ phase = "read"
    /\ IF guided
       THEN Len(rlog) < Len(ops) /\ ReadOf(ops[Len(rlog) + 1].op) = op
       ELSE Len(rlog) < MaxReads /\ Need(op, <<>>) > 0
    /\ Need(op, Remaining(rd)) <= Len(Remaining(rd))
    /\ Need(op, Unread(ar)) <= Len(Unread(ar))
    /\ rd' = resb.p
    /\ rlog' = Append(rlog, [op |-> op, r |-> resb.r,
                             from |-> Consumed(rd), to |-> Consumed(resb.p),
                             index |-> resb.p.index, trans |-> resb.p.trans])
    /\ ar' = resa.p
    /\ alog' = Append(alog, [op |-> op, r |-> resa.r,
                             from |-> ar.reader.pos, to |-> resa.p.reader.pos])
    /\ UNCHANGED <<phase, zero_copy, ops, lp, lpClean, writerVars, guided>>

Read_message_begin == ReadStep("message_begin", BytesMut_read_message_begin(rd), Async_read_message_begin(ar))
Read_message_end == ReadStep("message_end", BytesMut_read_message_end(rd), Async_read_message_end(ar))
Read_struct_begin == ReadStep("struct_begin", BytesMut_read_struct_begin(rd), Async_read_struct_begin(ar))
Read_struct_end == ReadStep("struct_end", BytesMut_read_struct_end(rd), Async_read_struct_end(ar))
Read_field_begin == ReadStep("field_begin", BytesMut_read_field_begin(rd), Async_read_field_begin(ar))
Read_field_end == ReadStep("field_end", BytesMut_read_field_end(rd), Async_read_field_end(ar))
Read_bool == ReadStep("bool", BytesMut_read_bool(rd), Async_read_bool(ar))
Read_bytes == ReadStep("bytes", BytesMut_read_bytes(rd), Async_read_bytes(ar))
Read_byte == ReadStep("byte", BytesMut_read_byte(rd), Async_read_byte(ar))
Read_uuid == ReadStep("uuid", BytesMut_read_uuid(rd), Async_read_uuid(ar))
Read_i8 == ReadStep("i8", BytesMut_read_i8(rd), Async_read_i8(ar))
Read_i16 == ReadStep("i16", BytesMut_read_i16(rd), Async_read_i16(ar))
Read_i32 == ReadStep("i32", BytesMut_read_i32(rd), Async_read_i32(ar))
Read_i64 == ReadStep("i64", BytesMut_read_i64(rd), Async_read_i64(ar))
Read_double == ReadStep("double", BytesMut_read_double(rd), Async_read_double(ar))
Read_string == ReadStep("string", BytesMut_read_string(rd), Async_read_string(ar))
Read_faststr == ReadStep("faststr", BytesMut_read_faststr(rd), Async_read_faststr(ar))
Read_list_begin == ReadStep("list_begin", BytesMut_read_list_begin(rd), Async_read_list_begin(ar))
Read_list_end == ReadStep("list_end", BytesMut_read_list_end(rd), Async_read_list_end(ar))
Read_set_begin == ReadStep("set_begin", BytesMut_read_set_begin(rd), Async_read_set_begin(ar))
Read_set_end == ReadStep("set_end", BytesMut_read_set_end(rd), Async_read_set_end(ar))
Read_map_begin == ReadStep("map_begin", BytesMut_read_map_begin(rd), Async_read_map_begin(ar))
Read_map_end == ReadStep("map_end", BytesMut_read_map_end(rd), Async_read_map_end(ar))
Read_bytes_vec == ReadStep("bytes_vec", BytesMut_read_bytes_vec(rd), Async_read_bytes_vec(ar))

ReadNext ==
    \/ Read_message_begin \/ Read_message_end \/ Read_struct_begin \/ Read_struct_end
    \/ Read_field_begin \/ Read_field_end \/ Read_bool \/ Read_bytes
    \/ Read_byte \/ Read_uuid \/ Read_i8 \/ Read_i16
    \/ Read_i32 \/ Read_i64 \/ Read_double \/ Read_string
    \/ Read_faststr \/ Read_list_begin \/ Read_list_end \/ Read_set_begin
    \/ Read_set_end \/ Read_map_begin \/ Read_map_end \/ Read_bytes_vec

Init ==
    /\ phase = "plan"
    /\ zero_copy \in BOOLEAN
    /\ ops = <<>>
    /\ \E used \in (IF zero_copy THEN {0, ZERO_COPY_THRESHOLD} ELSE {0}) :
          lp = [new(NoBytesMut, window_of(NoBytesMut), zero_copy, <<>>)
                    EXCEPT !.zero_copy_len = used]
    /\ lpClean = FALSE
    /\ cw = NoInstance
    /\ lw = NoInstance
    /\ wpc = 0
    /\ rd = NoInstance
    /\ guided = FALSE
    /\ rlog = <<>>
    /\ ar = NoSource
    /\ alog = <<>>

Next == LenNext \/ Reserve \/ WriteNext \/ Transmit \/ Receive \/ ReadNext

Spec == Init /\ [][Next]_vars

(***************************************************************************)
(* What the claims are stated over.                                        *)
(***************************************************************************)
\* the calls that carry a length-prefixed payload, and the payload's bytes
PayloadOps == {"bytes", "bytes_vec", "string", "faststr"}
PayloadOf(c) == IF c.op = "message_begin" THEN c.v.name ELSE c.v
\* the bytes of a call that follow its payload on the wire
AfterPayload(c) == IF c.op = "message_begin" THEN 4 ELSE 0

\* the length pass's total for the first k calls
LenOfFirst(k) == SumRet(SubSeq(ops, 1, k))

\* the nodes of the chain that hold a payload by reference
RECURSIVE RefBytes(_)
RefBytes(list) ==
    IF list = <<>> THEN 0
    ELSE (IF Head(list).kind = "BytesMut" THEN 0 ELSE Len(Head(list).data))
         + RefBytes(Tail(list))

\* the bytes committed to the chain from tail windows
RECURSIVE CommittedBytes(_)
CommittedBytes(list) ==
    IF list = <<>> THEN 0
    ELSE (IF Head(list).kind = "BytesMut" THEN Head(list).len ELSE 0)
         + CommittedBytes(Tail(list))

\* the addresses of a memory something has been stored to
Stored(mem) == {a \in 1..Len(mem) : mem[a] # -1}

\* the chain's segments in chain order, then the final window up to the cursor
RECURSIVE Segments(_, _)
Segments(list, mem) ==
    IF list = <<>> THEN <<>>
    ELSE (IF Head(list).kind = "BytesMut"
          THEN Load(mem, Head(list).ptr, Head(list).len)
          ELSE Head(list).data) \o Segments(Tail(list), mem)
ChainStream(p) == Segments(p.trans.list, p.mem) \o Load(p.mem, p.buf.ptr, p.index)

WritePassStarted == phase = "write" \/ (phase = "read" /\ guided)
WritePassOver == WritePassStarted /\ wpc = Len(ops)

(***************************************************************************)
(* C1: for every sequence of encode calls and both settings of zero_copy,  *)
(* after each call of the write pass the contiguous writer's cursor is the *)
(* sum of the lengths the length pass returned for the calls made so far   *)
(* (so each call advances the cursor by the length returned for it, and    *)
(* the final cursor is the sum of all of them); the writer stays one       *)
(* region and every payload's bytes are stored in it.                      *)
(***************************************************************************)
C1_LengthAgreement ==
    WritePassStarted =>
        /\ cw.index = LenOfFirst(wpc)
        /\ cw.trans = with_capacity(SumRet(ops))
        /\ Stored(cw.mem) = 1..cw.index
        /\ \A k \in 1..wpc :
              ops[k].op \in PayloadOps \cup {"message_begin"} =>
                  LET b == PayloadOf(ops[k])
                  IN  Load(cw.mem, LenOfFirst(k) - AfterPayload(ops[k]) - Len(b), Len(b)) = b

\* a pass of at least two calls is over, with zero_copy set and a payload the
\* length pass counted as zero-copy
C1_Witness ==
    /\ phase = "write" /\ wpc = Len(ops) /\ wpc >= 2
    /\ zero_copy /\ zero_copy_len(lp) >= ZERO_COPY_THRESHOLD
    /\ cw.index = SumRet(ops)
    /\ \E k \in 1..wpc : ops[k].op = "faststr" /\ Len(ops[k].v) >= ZERO_COPY_THRESHOLD

(***************************************************************************)
(* C2: with zero_copy set, after reset() and a length pass, zero_copy_len() *)
(* is the number of payload bytes the chained writer holds by reference    *)
(* once it has made the same calls; it is at most the sum of the returned  *)
(* lengths, and the bytes the chained writer stored into tail windows are  *)
(* that sum minus zero_copy_len().                                         *)
(***************************************************************************)
C2_ZeroCopyLen ==
    (WritePassOver /\ zero_copy) =>
        /\ zero_copy_len(lp) = RefBytes(lw.trans.list)
        /\ zero_copy_len(lp) <= SumRet(ops)
        /\ CommittedBytes(lw.trans.list) + lw.index = SumRet(ops) - zero_copy_len(lp)
        /\ Cardinality(Stored(lw.mem)) = SumRet(ops) - zero_copy_len(lp)

\* the pass wrote a message whose name went by reference, and more after it
C2_Witness ==
    /\ WritePassOver /\ zero_copy /\ lpClean
    /\ \E k \in 1..Len(ops) :
          ops[k].op = "message_begin" /\ Len(ops[k].v.name) >= ZERO_COPY_THRESHOLD
    /\ RefBytes(lw.trans.list) > ZERO_COPY_THRESHOLD
    /\ lw.index > 0

(***************************************************************************)
(* C3: round trip.  The calls are written by the contiguous writer into a  *)
(* region of exactly the length-pass size; the buffer reader, given those  *)
(* bytes and the matching reads, returns the values written, in order, and *)
(* after the k-th read it has consumed exactly the bytes of the first k    *)
(* calls, so all the bytes written once every read is made.                *)
(***************************************************************************)
Matches(c, v) ==
    CASE c.op \in {"bool", "byte", "i8", "i16", "i32", "i64", "double", "uuid",
                   "field_begin", "list_begin", "set_begin", "map_begin"} -> v = c.v
      [] c.op \in PayloadOps -> v.bytes = c.v
      [] c.op = "field_stop" -> v = [field_type |-> TType_Stop, id |-> 0]
      [] c.op = "message_begin" ->
            /\ v.name.bytes = c.v.name
            /\ v.message_type = c.v.message_type
            /\ v.sequence_number = c.v.sequence_number
      [] OTHER -> v = <<>>

C3_RoundTrip ==
    (phase = "read" /\ guided) =>
        /\ Len(cw.mem) = SumRet(ops)
        /\ \A k \in 1..Len(rlog) :
              /\ rlog[k].op = ReadOf(ops[k].op)
              /\ rlog[k].r.ok
              /\ Matches(ops[k], rlog[k].r.v)
              /\ rlog[k].to = LenOfFirst(k)
        /\ Len(rlog) = Len(ops) => Consumed(rd) = cw.index

\* every read of a pass of two calls or more is made, one of them a string
\* the reader detached from its buffer with more to read after it
C3_Witness ==
    /\ phase = "read" /\ guided
    /\ Len(rlog) = Len(ops) /\ Len(ops) >= 2
    /\ \E k \in 1..(Len(rlog) - 1) :
          /\ rlog[k].op = "faststr" /\ rlog[k].r.v.detached
          /\ rlog[k + 1].to > rlog[k].to

(***************************************************************************)
(* C4: after every call of the write pass, the chained writer's segments   *)
(* in chain order followed by the bytes of its final window up to the      *)
(* cursor are the bytes the contiguous writer has produced, whether or not *)
(* a payload went by reference; and each payload held by reference comes   *)
(* right after a committed segment that ends with its 4-byte big-endian    *)
(* length.                                                                 *)
(***************************************************************************)
C4_SameStream ==
    WritePassStarted =>
        /\ ChainStream(lw) = Written(cw)
        /\ \A j \in 1..Len(lw.trans.list) :
              lw.trans.list[j].kind # "BytesMut" =>
                  /\ j > 1
                  /\ lw.trans.list[j - 1].kind = "BytesMut"
                  /\ lw.trans.list[j - 1].len >= 4
                  /\ Load(lw.mem,
                          lw.trans.list[j - 1].ptr + lw.trans.list[j - 1].len - 4, 4)
                        = i32_to_be_bytes(Len(lw.trans.list[j].data))

\* a payload went by reference and bytes were written after it
C4_Witness ==
    /\ WritePassOver /\ zero_copy
    /\ Len(lw.trans.list) >= 2
    /\ lw.index > 0
    /\ ChainStream(lw) = Written(cw)

(***************************************************************************)
(* The reads of the log, seen from the input.                              *)
(***************************************************************************)
\* the buffer reader's BytesMut and cursor before its k-th read
TransBefore(k) == IF k = 1 THEN from_bytes(rd.mem) ELSE rlog[k - 1].trans
IndexBefore(k) == IF k = 1 THEN 0 ELSE rlog[k - 1].index
\* the 32-bit word the k-th read started at: a payload's length, a header word
WordAt(k) == i32_from_be_bytes(Load(rd.mem, rlog[k].from, 4))
AsyncWordAt(k) == i32_from_be_bytes(Load(ar.reader.data, alog[k].from, 4))

\* the k-th read copied its payload out of the window: the BytesMut is as it
\* was and the cursor is 4 + len further
CopiedOut(k) ==
    /\ rlog[k].r.ok
    /\ ~rlog[k].r.v.detached
    /\ rlog[k].r.v.bytes = Load(rd.mem, rlog[k].from + 4, WordAt(k))
    /\ rlog[k].trans = TransBefore(k)
    /\ rlog[k].index = IndexBefore(k) + 4 + WordAt(k)

\* the k-th read detached exactly len bytes of the backing buffer: the piece
\* is the buffer's own bytes right after the length, and the BytesMut that is
\* left starts after the piece, with the cursor at its start
DetachedOut(k) ==
    /\ rlog[k].r.ok
    /\ rlog[k].r.v.detached
    /\ rlog[k].r.v.addr = rlog[k].from + 4
    /\ Len(rlog[k].r.v.bytes) = WordAt(k)
    /\ rlog[k].r.v.bytes = Load(rd.mem, rlog[k].from + 4, WordAt(k))
    /\ rlog[k].trans.ptr = rlog[k].from + 4 + WordAt(k)
    /\ rlog[k].trans.len = TransBefore(k).len - IndexBefore(k) - 4 - WordAt(k)
    /\ rlog[k].index = 0

(***************************************************************************)
(* C5, as stated: read_bytes and read_faststr of the buffer reader copy    *)
(* the payload when the decoded length is below ZERO_COPY_THRESHOLD and    *)
(* detach exactly len bytes when it is at or above it.                     *)
(***************************************************************************)
C5_Original ==
    phase = "read" =>
        \A k \in 1..Len(rlog) :
            rlog[k].op \in {"bytes", "faststr"} =>
                IF WordAt(k) < ZERO_COPY_THRESHOLD THEN CopiedOut(k) ELSE DetachedOut(k)

(***************************************************************************)
(* C5, amended: read_faststr copies the payload when the decoded length is *)
(* below ZERO_COPY_THRESHOLD (at threshold - 1 in particular) and detaches *)
(* exactly len bytes when it is at or above it (at the threshold in        *)
(* particular); read_bytes detaches exactly len bytes whatever the length, *)
(* below the threshold too.                                                *)
(***************************************************************************)
C5_ReaderThreshold ==
    phase = "read" =>
        \A k \in 1..Len(rlog) :
            /\ rlog[k].op = "faststr" =>
                  IF WordAt(k) < ZERO_COPY_THRESHOLD THEN CopiedOut(k) ELSE DetachedOut(k)
            /\ rlog[k].op = "bytes" => DetachedOut(k)

\* a byte payload one short of the threshold was detached, and a string of
\* exactly the threshold was detached after it
C5_Witness ==
    /\ phase = "read"
    /\ Len(rlog) >= 2
    /\ rlog[1].op = "bytes" /\ WordAt(1) = ZERO_COPY_THRESHOLD - 1
    /\ rlog[1].r.v.detached
    /\ rlog[2].op = "faststr" /\ WordAt(2) = ZERO_COPY_THRESHOLD
    /\ rlog[2].r.v.detached

\* a string one short of the threshold was copied
C5_CopyWitness ==
    /\ phase = "read"
    /\ \E k \in 1..Len(rlog) :
          /\ rlog[k].op = "faststr" /\ WordAt(k) = ZERO_COPY_THRESHOLD - 1
          /\ ~rlog[k].r.v.detached

(***************************************************************************)
(* C6: in the chained writer with zero_copy set, write_bytes and           *)
(* write_faststr with a payload shorter than ZERO_COPY_THRESHOLD store it  *)
(* through the tail window (the cursor moves 4 + len on, no segment is     *)
(* appended); with a payload of ZERO_COPY_THRESHOLD bytes or more they     *)
(* append it to the chain by reference, after the committed prefix, and    *)
(* store only the 4 bytes of its length.                                   *)
(***************************************************************************)
\* the step is the chained writer's call number wpc + 1
ChainedWrite(opset) ==
    /\ phase = "write" /\ phase' = "write"
    /\ wpc' = wpc + 1
    /\ ops[wpc'].op \in opset

CopiedIn(b) ==
    /\ lw'.index = lw.index + 4 + Len(b)
    /\ lw'.trans = lw.trans
    /\ lw'.buf = lw.buf
    /\ Load(lw'.mem, lw.buf.ptr + lw.index, 4 + Len(b)) = i32_to_be_bytes(Len(b)) \o b
    /\ Cardinality(Stored(lw'.mem)) = Cardinality(Stored(lw.mem)) + 4 + Len(b)

SplicedIn(kind, b) ==
    LET n == Len(lw.trans.list)
    IN  /\ Len(lw'.trans.list) = n + 2
        /\ SubSeq(lw'.trans.list, 1, n) = lw.trans.list
        /\ lw'.trans.list[n + 1] =
              [kind |-> "BytesMut", ptr |-> lw.trans.bytes.ptr, len |-> lw.index + 4]
        /\ lw'.trans.list[n + 2].kind = kind
        /\ lw'.trans.list[n + 2].data = b
        /\ lw'.index = 0
        /\ lw'.buf.ptr = lw.trans.bytes.ptr + lw.index + 4
        /\ Stored(lw'.mem) \ Stored(lw.mem) =
              (lw.trans.bytes.ptr + lw.index + 1)..(lw.trans.bytes.ptr + lw.index + 4)
        /\ Load(lw'.mem, lw.trans.bytes.ptr + lw.index, 4) = i32_to_be_bytes(Len(b))

C6_WriterThreshold ==
    [][ (zero_copy /\ ChainedWrite({"bytes", "faststr"})) =>
            LET b == ops[wpc'].v
            IN  IF Len(b) < ZERO_COPY_THRESHOLD
                THEN CopiedIn(b)
                ELSE SplicedIn(IF ops[wpc'].op = "bytes" THEN "Bytes" ELSE "FastStr", b)
      ]_vars

\* a payload one short of the threshold was copied, then one of exactly the
\* threshold went into the chain by reference
C6_Witness ==
    /\ phase = "write" /\ zero_copy /\ wpc = 2
    /\ ops[1].op = "faststr" /\ Len(ops[1].v) = ZERO_COPY_THRESHOLD - 1
    /\ ops[2].op = "bytes" /\ Len(ops[2].v) = ZERO_COPY_THRESHOLD
    /\ Len(lw.trans.list) = 2
    /\ lw.trans.list[1].len = 4 + (ZERO_COPY_THRESHOLD - 1) + 4
    /\ lw.trans.list[2].data = ops[2].v
    /\ lw.index = 0

(***************************************************************************)
(* read_message_begin, seen from the header word it read.                  *)
(***************************************************************************)
MessageReads == {k \in 1..Len(rlog) : rlog[k].op = "message_begin"}
FailsWith(r, kind) == ~r.ok /\ r.err = kind
KnownType(size) == and_0xf(size) \in {1, 2, 3, 4}
VersionOK(size) == and_VERSION_MASK(size) = VERSION_1

(***************************************************************************)
(* C7, as stated: read_message_begin of the buffer reader and of the       *)
(* streaming reader fails with BadVersion for every header word size > 0,  *)
(* and for every header word size <= 0 whose top 16 bits are not 0x8001.   *)
(***************************************************************************)
C7_Original ==
    phase = "read" =>
        \A k \in MessageReads :
            (WordAt(k) > 0 \/ ~VersionOK(WordAt(k))) =>
                /\ FailsWith(rlog[k].r, "BadVersion")
                /\ FailsWith(alog[k].r, "BadVersion")

(***************************************************************************)
(* C7, amended: read_message_begin of either reader fails with BadVersion  *)
(* for every header word size > 0, and for every header word size <= 0     *)
(* whose low nibble is one of the known message types 1..4 and whose top   *)
(* 16 bits are not 0x8001.                                                 *)
(***************************************************************************)
C7_BadVersion ==
    phase = "read" =>
        \A k \in MessageReads :
            (WordAt(k) > 0 \/ (KnownType(WordAt(k)) /\ ~VersionOK(WordAt(k)))) =>
                /\ AsyncWordAt(k) = WordAt(k)
                /\ FailsWith(rlog[k].r, "BadVersion")
                /\ FailsWith(alog[k].r, "BadVersion")
                /\ rlog[k].to = rlog[k].from + 4

\* a header word of known type and wrong version was turned down, and so was
\* a positive one
C7_Witness ==
    /\ phase = "read" /\ ~guided
    /\ \E k \in MessageReads :
          /\ WordAt(k) <= 0 /\ KnownType(WordAt(k)) /\ ~VersionOK(WordAt(k))
          /\ FailsWith(rlog[k].r, "BadVersion")
          /\ FailsWith(alog[k].r, "BadVersion")

C7_PositiveWitness ==
    /\ phase = "read" /\ ~guided
    /\ \E k \in MessageReads :
          WordAt(k) > 0 /\ ~KnownType(WordAt(k)) /\ FailsWith(rlog[k].r, "BadVersion")

(***************************************************************************)
(* C8: read_message_begin checks the sign, then the message type, then the *)
(* version.  A header word size <= 0 whose low nibble is not one of 1..4   *)
(* fails with InvalidData, whatever its version bits; a header is accepted *)
(* exactly when size <= 0, the nibble is a known type and the top 16 bits  *)
(* are 0x8001, and then the message type returned is the nibble and the    *)
(* name and the sequence number are read next, in that order.              *)
(***************************************************************************)
AcceptedAs(r, from, to, data) ==
    LET size == i32_from_be_bytes(Load(data, from, 4))
        len  == i32_from_be_bytes(Load(data, from + 4, 4))
    IN  /\ r.ok
        /\ r.v.message_type = and_0xf(size)
        /\ r.v.name.bytes = Load(data, from + 8, len)
        /\ r.v.sequence_number = i32_from_be_bytes(Load(data, from + 8 + len, 4))
        /\ to = from + 12 + len

C8_CheckOrder ==
    phase = "read" =>
        \A k \in MessageReads :
            LET size == WordAt(k)
            IN  /\ AsyncWordAt(k) = size
                /\ (size <= 0 /\ ~KnownType(size)) =>
                      /\ FailsWith(rlog[k].r, "InvalidData")
                      /\ FailsWith(alog[k].r, "InvalidData")
                /\ rlog[k].r.ok <=> (size <= 0 /\ KnownType(size) /\ VersionOK(size))
                /\ alog[k].r.ok <=> rlog[k].r.ok
                /\ rlog[k].r.ok =>
                      /\ AcceptedAs(rlog[k].r, rlog[k].from, rlog[k].to, rd.mem)
                      /\ AcceptedAs(alog[k].r, alog[k].from, alog[k].to, ar.reader.data)

\* a header of unknown type and wrong version failed on its type, and a
\* header read from received bytes was accepted
C8_Witness ==
    /\ phase = "read" /\ ~guided
    /\ \E k \in MessageReads :
          /\ WordAt(k) <= 0 /\ ~KnownType(WordAt(k)) /\ ~VersionOK(WordAt(k))
          /\ FailsWith(rlog[k].r, "InvalidData")

C8_AcceptWitness ==
    /\ phase = "read" /\ ~guided
    /\ \E k \in MessageReads :
          /\ rlog[k].r.ok /\ alog[k].r.ok
          /\ rlog[k].r.v.message_type = 4
          /\ rlog[k].to = rlog[k].from + 16

(***************************************************************************)
(* C9: struct begin, field stop, struct end is measured as 1 byte by the   *)
(* length pass and written as the single byte 0x00 by both writers.        *)
(* read_field_begin on a Stop byte returns type Stop and id 0 and consumes *)
(* 1 byte, the id is not read; on any other type it consumes 3 bytes and   *)
(* returns the big-endian 16-bit id that follows the type.                 *)
(***************************************************************************)
OpsAre(s) ==
    /\ Len(ops) = Len(s)
    /\ \A k \in 1..Len(s) : ops[k].op = s[k].op /\ ops[k].v = s[k].v

FieldRead(r, from, to, data) ==
    LET t == Load(data, from, 1)[1]
    IN  /\ t = 0 => /\ r = Ok([field_type |-> TType_Stop, id |-> 0])
                    /\ to = from + 1
        /\ t \in TTypeCodes \ {0} =>
              /\ r = Ok([field_type |-> t, id |-> i16_from_be_bytes(Load(data, from + 1, 2))])
              /\ to = from + 3

C9_EmptyStruct ==
    /\ (WritePassOver /\ OpsAre(EmptyStructScenario)) =>
          /\ SumRet(ops) = 1
          /\ [k \in 1..3 |-> ops[k].ret] = <<0, 1, 0>>
          /\ Written(cw) = <<0>>
          /\ ChainStream(lw) = <<0>>
          /\ lw.trans.list = <<>>
    /\ phase = "read" =>
          \A k \in 1..Len(rlog) :
              rlog[k].op = "field_begin" =>
                  /\ FieldRead(rlog[k].r, rlog[k].from, rlog[k].to, rd.mem)
                  /\ FieldRead(alog[k].r, alog[k].from, alog[k].to, ar.reader.data)

\* the empty struct was written and read back
C9_Witness ==
    /\ phase = "read" /\ guided /\ OpsAre(EmptyStructScenario)
    /\ Len(rlog) = 3
    /\ rlog[2].r = Ok([field_type |-> TType_Stop, id |-> 0])
    /\ rd.index = 1

\* in received bytes a Stop was read and the field header after it, whose
\* type is the byte right after the Stop
C9_StopThenFieldWitness ==
    /\ phase = "read" /\ ~guided
    /\ Len(rlog) = 2
    /\ rlog[1].op = "field_begin" /\ rlog[1].r.ok /\ rlog[1].r.v.field_type = TType_Stop
    /\ rlog[2].op = "field_begin" /\ rlog[2].r.ok /\ rlog[2].r.v.field_type = TType_Binary
    /\ rlog[2].from = 1 /\ rlog[2].to = 4

(***************************************************************************)
(* C10: message begin {"ping", Call, 7}, struct begin, field stop, struct  *)
(* end, message end is measured as 17 bytes and written as                 *)
(* 80 01 00 01, 00 00 00 04, 70 69 6E 67, 00 00 00 07, 00; read back,      *)
(* read_message_begin returns {"ping", Call, 7}, read_field_begin returns  *)
(* a Stop field, and the cursor is at 17.                                  *)
(***************************************************************************)
PingWire == <<128, 1, 0, 1, 0, 0, 0, 4, 112, 105, 110, 103, 0, 0, 0, 7, 0>>

C10_PingScenario ==
    (WritePassOver /\ OpsAre(PingScenario)) =>
        /\ SumRet(ops) = 17
        /\ cw.index = 17
        /\ Written(cw) = PingWire
        /\ phase = "read" =>
              /\ rd.mem = PingWire
              /\ Len(rlog) >= 1 =>
                    /\ rlog[1].op = "message_begin"
                    /\ rlog[1].r = Ok([name |-> Copied(PingBytes), message_type |-> 1,
                                       sequence_number |-> 7])
                    /\ rlog[1].to = 16
              /\ Len(rlog) >= 3 =>
                    /\ rlog[3].op = "field_begin"
                    /\ rlog[3].r = Ok([field_type |-> TType_Stop, id |-> 0])
                    /\ rlog[3].to = 17
                    /\ rd.index = 17
                    /\ rd.trans = from_bytes(PingWire)

\* the scenario was written and every read of it made
C10_Witness ==
    /\ phase = "read" /\ guided /\ OpsAre(PingScenario)
    /\ Len(rlog) = 5
    /\ rlog[1].r.ok /\ rlog[3].r.ok
    /\ rd.index = 17

(***************************************************************************)
(* C11: in both readers read_field_begin, read_list_begin, read_set_begin  *)
(* and read_map_begin fail with InvalidData when a type byte they read is  *)
(* not the code of a TType variant, and the offending byte is the last     *)
(* byte they consume: the id or size after it is not read.  None of them   *)
(* returns an identifier made from such a byte.                            *)
(***************************************************************************)
HeaderReads == {"field_begin", "list_begin", "set_begin", "map_begin"}
\* the first type byte of the read that is no TType code, 0 if there is none
FirstBadType(op, from, data) ==
    IF Load(data, from, 1)[1] \notin TTypeCodes THEN 1
    ELSE IF op = "map_begin" /\ Load(data, from + 1, 1)[1] \notin TTypeCodes THEN 2
    ELSE 0

RejectsBadType(e, data) ==
    LET bad == FirstBadType(e.op, e.from, data)
    IN  /\ bad > 0 => FailsWith(e.r, "InvalidData") /\ e.to = e.from + bad
        /\ e.r.ok => bad = 0

C11_InvalidType ==
    phase = "read" =>
        \A k \in 1..Len(rlog) :
            rlog[k].op \in HeaderReads =>
                /\ RejectsBadType(rlog[k], rd.mem)
                /\ RejectsBadType(alog[k], ar.reader.data)

\* a map header with a known key type and an unknown value type was turned
\* down by both readers after its two type bytes
C11_Witness ==
    /\ phase = "read" /\ ~guided
    /\ \E k \in 1..Len(rlog) :
          /\ rlog[k].op = "map_begin"
          /\ FirstBadType("map_begin", rlog[k].from, rd.mem) = 2
          /\ FailsWith(rlog[k].r, "InvalidData") /\ rlog[k].to = rlog[k].from + 2
          /\ FailsWith(alog[k].r, "InvalidData") /\ alog[k].to = alog[k].from + 2

(***************************************************************************)
(* C12: write_map_begin for key type I32, value type String, size 2        *)
(* writes the 6 bytes 08 0B 00 00 00 02 (and is measured as 6); the two    *)
(* pairs written after it are on the wire in the order of the calls; and   *)
(* read_map_begin with the matching reads returns the key type, the value  *)
(* type, size 2 and the pairs in that order.                               *)
(***************************************************************************)
MapHeaderWire == <<8, 11, 0, 0, 0, 2>>
\* key, value, key, value as the scenario's calls 2..5 give them
MapPairsWire ==
    i32_to_be_bytes(MapScenario[2].v)
        \o i32_to_be_bytes(Len(MapScenario[3].v)) \o MapScenario[3].v
        \o i32_to_be_bytes(MapScenario[4].v)
        \o i32_to_be_bytes(Len(MapScenario[5].v)) \o MapScenario[5].v

C12_MapScenario ==
    (WritePassStarted /\ OpsAre(MapScenario)) =>
        /\ ops[1].ret = 6
        /\ wpc >= 1 => Load(cw.mem, 0, 6) = MapHeaderWire
        /\ wpc = Len(ops) => Written(cw) = MapHeaderWire \o MapPairsWire
        /\ phase = "read" =>
              /\ Len(rlog) >= 1 =>
                    /\ rlog[1].op = "map_begin"
                    /\ rlog[1].r = Ok([key_type |-> TType_I32, value_type |-> TType_Binary,
                                       size |-> 2])
                    /\ rlog[1].to = 6
              /\ \A k \in 2..5 :
                    Len(rlog) >= k =>
                        /\ rlog[k].op = MapScenario[k].op
                        /\ rlog[k].r.ok
                        /\ IF rlog[k].op = "i32"
                           THEN rlog[k].r.v = MapScenario[k].v
                           ELSE rlog[k].r.v.bytes = MapScenario[k].v

\* the map was written and every read of it made; the two keys differ
C12_Witness ==
    /\ phase = "read" /\ guided /\ OpsAre(MapScenario)
    /\ Len(rlog) = 6
    /\ rlog[1].r.ok /\ rlog[1].r.v.size = 2
    /\ rlog[2].r.v # rlog[4].r.v
    /\ Consumed(rd) = 6 + Len(MapPairsWire)

(***************************************************************************)
(* C13: the zero_copy flag governs both the chained writer and the buffer  *)
(* reader.  With instances constructed with zero_copy = false nothing goes *)
(* by reference: the chained writer's write_bytes and write_faststr copy   *)
(* payloads of every length, the buffer reader's read_bytes and            *)
(* read_faststr copy payloads of every length and do not split the backing *)
(* buffer, and zero_copy_len() stays 0.                                    *)
(***************************************************************************)
\* the part of C13 about the length pass and the chained writer
C13_WriterCopies ==
    ~zero_copy =>
        /\ zero_copy_len(lp) = 0
        /\ WritePassStarted =>
              /\ lw.trans.list = <<>>
              /\ lw.index = LenOfFirst(wpc)
              /\ ChainStream(lw) = Written(cw)

\* the part of C13 about the buffer reader
C13_ReaderCopies ==
    (~zero_copy /\ phase = "read") =>
        /\ ~rd.zero_copy
        /\ \A k \in 1..Len(rlog) :
              rlog[k].op \in {"bytes", "faststr"} => CopiedOut(k)

C13_FlagGoverns == C13_WriterCopies /\ C13_ReaderCopies

(***************************************************************************)
(* C14: the chained writer starts over a tail whose spare capacity is the  *)
(* length-pass total minus zero_copy_len(), with the window at the tail's  *)
(* first unwritten byte.  Then no store goes past the capacity of the tail *)
(* that is current when it is made: the cursor never exceeds what is left  *)
(* of that tail, the prefix committed at a splice fits the tail it was     *)
(* written in, also after earlier splices, and no stored byte is lost.     *)
(***************************************************************************)
C14_WithinCapacity ==
    WritePassStarted =>
        LET tail == lw.trans.bytes
        IN  /\ tail.cap - tail.len >= 0
            /\ lw.index <= tail.cap - tail.len
            /\ lw.buf.ptr + lw.index <= tail.ptr + tail.cap
            /\ tail.ptr + tail.cap = Len(lw.mem)
            /\ \A j \in 1..Len(lw.trans.list) :
                  lw.trans.list[j].kind = "BytesMut" =>
                      lw.trans.list[j].ptr + lw.trans.list[j].len <= tail.ptr
            /\ Cardinality(Stored(lw.mem)) = CommittedBytes(lw.trans.list) + lw.index

\* after a splice more bytes were written, and they fill the new tail to its
\* last byte
C14_Witness ==
    /\ phase = "write" /\ zero_copy /\ wpc = Len(ops)
    /\ Len(lw.trans.list) >= 2
    /\ lw.index > 0
    /\ lw.index = lw.trans.bytes.cap - lw.trans.bytes.len

(***************************************************************************)
(* The cursor across one call.                                             *)
(***************************************************************************)
Bracketing ==
    {"message_end", "struct_begin", "struct_end", "field_end",
     "list_end", "set_end", "map_end"}
WriteCall == phase = "write" /\ phase' = "write" /\ wpc' = wpc + 1
ReadCall == phase = "read" /\ phase' = "read" /\ Len(rlog') = Len(rlog) + 1
\* the call made by the step
Written1 == ops[wpc']
Read1 == rlog'[Len(rlog')]
\* the 32-bit word at the buffer reader's position, and the one after it
WordAhead(off) == i32_from_be_bytes(Load(rd.mem, Consumed(rd) + off, 4))

\* the call takes the by-reference branch of write_bytes / write_faststr
SplicesPayload ==
    /\ Written1.op \in {"bytes", "faststr"}
    /\ lw.zero_copy /\ Len(Written1.v) >= ZERO_COPY_THRESHOLD
\* write_message_begin writes the name with write_faststr
SplicesName ==
    /\ Written1.op = "message_begin"
    /\ lw.zero_copy /\ Len(Written1.v.name) >= ZERO_COPY_THRESHOLD
\* the call is read_bytes, read_bytes_vec or read_faststr in its detaching branch
DetachesPayload ==
    \/ Read1.op \in {"bytes", "bytes_vec"}
    \/ Read1.op = "faststr" /\ WordAhead(0) >= ZERO_COPY_THRESHOLD
\* read_message_begin reads the name with read_faststr
DetachesName ==
    /\ Read1.op = "message_begin" /\ Read1.r.ok
    /\ WordAhead(4) >= ZERO_COPY_THRESHOLD

\* what holds of every call whatever it is
CursorKept ==
    /\ lp'.index = lp.index
    /\ WriteCall =>
          /\ cw'.index >= cw.index
          /\ Written1.op \in Bracketing => cw'.index = cw.index /\ lw'.index = lw.index
    /\ ReadCall => (Read1.op \in Bracketing => rd'.index = rd.index)

(***************************************************************************)
(* C15, as stated: the cursor of an instance never decreases, except that  *)
(* it is set to 0 by exactly the by-reference branch of write_bytes and    *)
(* write_faststr in the chained writer and by read_bytes, read_bytes_vec   *)
(* and the detaching branch of read_faststr in the buffer reader; the      *)
(* length pass, reset() and the calls that emit nothing leave it as it is. *)
(***************************************************************************)
C15_Original ==
    [][ /\ CursorKept
        /\ WriteCall =>
              IF SplicesPayload THEN lw'.index = 0 ELSE lw'.index >= lw.index
        /\ ReadCall =>
              IF DetachesPayload THEN rd'.index = 0 ELSE rd'.index >= rd.index
      ]_vars

(***************************************************************************)
(* C15, amended: as stated, and the window is also swapped inside          *)
(* write_message_begin of the chained writer and read_message_begin of the *)
(* buffer reader when the name takes the by-reference branch of            *)
(* write_faststr / read_faststr: the cursor is set to 0 there and is 4,    *)
(* the sequence number's bytes, when the call returns.  In every other     *)
(* call the cursor does not decrease and the window is not swapped.        *)
(***************************************************************************)
C15_CursorMonotone ==
    [][ /\ CursorKept
        /\ WriteCall =>
              IF SplicesPayload THEN lw'.index = 0
              ELSE IF SplicesName THEN lw'.index = 4
              ELSE lw'.index >= lw.index /\ lw'.buf = lw.buf /\ lw'.trans = lw.trans
        /\ ReadCall =>
              IF DetachesPayload THEN rd'.index = 0
              ELSE IF DetachesName THEN rd'.index = 4
              ELSE rd'.index >= rd.index /\ rd'.buf = rd.buf /\ rd'.trans = rd.trans
      ]_vars

\* the reader detached a payload with its cursor beyond 0, and a call after
\* it moved the cursor on from 0
C15_Witness ==
    /\ phase = "read" /\ Len(rlog) >= 2
    /\ rlog[1].r.ok /\ rlog[1].op \in {"bytes", "bytes_vec", "faststr"}
    /\ rlog[1].index = 0 /\ rlog[1].trans.ptr > 4
    /\ rlog[2].index > 0

\* the chained writer wrote a message header whose name went by reference,
\* after an earlier call had moved the cursor beyond 4
C15_NameWitness ==
    /\ phase = "write" /\ zero_copy /\ wpc = 2
    /\ ops[1].ret > 4
    /\ ops[2].op = "message_begin" /\ Len(ops[2].v.name) >= ZERO_COPY_THRESHOLD
    /\ lw.index = 4

(***************************************************************************)
(* C16: the window's base is the base of the transport's current segment   *)
(* when an instance is constructed, and it still is after every call:      *)
(* the calls that change the backing store (advance and split_to in the    *)
(* reader, advance_mut and insert in the chained writer) take the window   *)
(* again before they return.  So a store or load through the window and    *)
(* one through the transport go to the same byte for the same cursor.      *)
(***************************************************************************)
\* the address the cursor stands for, through the window and through the
\* transport
ViaWindow(p) == p.buf.ptr + p.index
ViaBytesMut(p) == p.trans.ptr + p.index
ViaLinkedBytes(p) == p.trans.bytes.ptr + p.index

C16_WindowFresh ==
    /\ WritePassStarted =>
          /\ cw.buf.ptr = cw.trans.ptr
          /\ ViaWindow(cw) = ViaBytesMut(cw)
          /\ lw.buf.ptr = lw.trans.bytes.ptr
          /\ ViaWindow(lw) = ViaLinkedBytes(lw)
    /\ phase = "read" =>
          /\ rd.buf = window_of(rd.trans)
          /\ ViaWindow(rd) = ViaBytesMut(rd)
          /\ \A k \in 1..Len(rlog) : rlog[k].to = rlog[k].trans.ptr + rlog[k].index

\* a payload went by reference in the chained writer and was detached in the
\* reader, both windows moved, and a uuid went through the transport after it
C16_Witness ==
    /\ phase = "read" /\ guided /\ zero_copy
    /\ Len(ops) = 2 /\ Len(rlog) = 2
    /\ ops[1].op = "bytes" /\ ops[2].op = "uuid"
    /\ lw.buf.ptr > 0 /\ lw.index = 16
    /\ rd.buf.ptr > 0
    /\ rlog[2].r = Ok(ops[2].v)

(***************************************************************************)
(* C17: right after a splice in the chained writer (the by-reference       *)
(* branch of write_bytes or write_faststr) the bytes written in the old    *)
(* tail, `cursor` bytes ending with the payload's 4-byte length, are       *)
(* committed, the payload is the next segment of the chain, the cursor is  *)
(* 0, and the window taken again starts at the first writable byte of the  *)
(* new tail and is as long as that tail's writable capacity.               *)
(***************************************************************************)
\* the part about the chain, the cursor and the window's start
C17_SpliceCommits ==
    [][ (WriteCall /\ SplicesPayload) =>
            /\ SplicedIn(IF Written1.op = "bytes" THEN "Bytes" ELSE "FastStr", Written1.v)
            /\ lw'.buf.ptr = lw'.trans.bytes.ptr + lw'.trans.bytes.len
      ]_vars

\* the part about the window's length
C17_WindowLength ==
    [][ (WriteCall /\ SplicesPayload) =>
            lw'.buf.len = lw'.trans.bytes.cap - lw'.trans.bytes.len
      ]_vars

C17_AfterSplice ==
    [][ (WriteCall /\ SplicesPayload) =>
            /\ SplicedIn(IF Written1.op = "bytes" THEN "Bytes" ELSE "FastStr", Written1.v)
            /\ lw'.buf.ptr = lw'.trans.bytes.ptr + lw'.trans.bytes.len
            /\ lw'.buf.len = lw'.trans.bytes.cap - lw'.trans.bytes.len
      ]_vars

(***************************************************************************)
(* C18: over the same bytes, long enough for the reads made, and the same  *)
(* sequence of reads, the streaming reader and the buffer reader return    *)
(* the same results, equal values or errors of the same kind at the same   *)
(* call, and after every call the streaming reader has taken from its      *)
(* source exactly the bytes the buffer reader has consumed: it does not    *)
(* read ahead, and after a failed header check of read_message_begin it    *)
(* has taken the 4 header bytes only.                                      *)
(***************************************************************************)
SameValue(op, v, w) ==
    CASE op \in PayloadOps -> v.bytes = w.bytes
      [] op = "message_begin" ->
            /\ v.name.bytes = w.name.bytes
            /\ v.message_type = w.message_type
            /\ v.sequence_number = w.sequence_number
      [] OTHER -> v = w
SameResult(op, r, q) ==
    /\ r.ok = q.ok
    /\ IF r.ok THEN SameValue(op, r.v, q.v) ELSE r.err = q.err

C18_ReadersAgree ==
    phase = "read" =>
        /\ ar.reader.data = rd.mem
        /\ Len(alog) = Len(rlog)
        /\ ar.reader.pos = Consumed(rd)
        /\ \A k \in 1..Len(rlog) :
              /\ alog[k].op = rlog[k].op
              /\ SameResult(rlog[k].op, rlog[k].r, alog[k].r)
              /\ alog[k].from = rlog[k].from
              /\ alog[k].to = rlog[k].to
              /\ (rlog[k].op = "message_begin" /\ ~alog[k].r.ok) =>
                    alog[k].to = alog[k].from + 4

\* both readers turned a header down after its 4 bytes and agreed on the
\* read made after it
C18_Witness ==
    /\ phase = "read" /\ ~guided
    /\ Len(rlog) = 2
    /\ rlog[1].op = "message_begin" /\ ~rlog[1].r.ok /\ ~alog[1].r.ok
    /\ alog[1].to = 4
    /\ rlog[2].r.ok /\ alog[2].r.ok
    /\ alog[2].to > 4
    /\ ar.reader.pos = Consumed(rd)

\* both readers read a payload the buffer reader detached and the streaming
\* reader copied, and the read after it
C18_PayloadWitness ==
    /\ phase = "read" /\ guided
    /\ Len(rlog) = 2
    /\ rlog[1].op = "bytes" /\ rlog[1].r.v.detached /\ ~alog[1].r.v.detached
    /\ rlog[1].r.v.bytes = alog[1].r.v.bytes
    /\ alog[2].to > alog[1].to

====
